---- MODULE Spec2Model ----
(***************************************************************************)
(* Model of the free-cash-flow dashboard:                                  *)
(*   - the derived-metrics layer, MetricsCalculator in                     *)
(*     financial_data_processor.py (CAGR, multi-period CAGR, P/E, profit   *)
(*     margins, FCF - SBC and FCF yield);                                  *)
(*   - the functions on SEC company facts in sec_edgar_api.py and in the   *)
(*     older main.py (unit filter, tag resolution, annual values, the      *)
(*     annual series of get_financial_data);                               *)
(*   - DataTransformer.to_financial_dataframe.                             *)
(*                                                                         *)
(* The functions are pure.  Each specification below draws the arguments   *)
(* of one family of functions from bounded sets (Init) and has one action  *)
(* per function, which applies the function to the arguments and records   *)
(* the returned value.                                                     *)
(*                                                                         *)
(* Numbers.  Python floats are modelled by exact arithmetic: a finite cell *)
(* of a table is a normalised rational, and the three IEEE special values  *)
(* NaN, +inf and -inf are kept as distinct cells, since the code under     *)
(* study distinguishes them.  The n-th root taken by calculate_cagr is     *)
(* irrational in general; it is computed exactly to the resolution that    *)
(* the two-decimal formatting of calculate_metric_cagrs can observe        *)
(* (half a hundredth of a percent), with arbitrary-precision naturals      *)
(* because the intermediate powers exceed 32 bits.                         *)
(***************************************************************************)
EXTENDS Integers, Sequences, FiniteSets, TLC

VARIABLES
    fn,     \* the function that has been applied ("none" before the call)
    args,   \* the arguments of the call, a record keyed by parameter name
    ret     \* the value returned by the call (NoRet before the call)

vars == <<fn, args, ret>>

NoRet == <<>>

-----------------------------------------------------------------------------
(* Arbitrary-precision naturals: little-endian sequences of limbs, without *)
(* leading zero limbs; <<>> is zero.                                       *)

Base == 10 ^ 4

RECURSIVE BigFromNat(_)
BigFromNat(n) ==
    IF n = 0 THEN <<>> ELSE <<n % Base>> \o BigFromNat(n \div Base)

RECURSIVE BigAddC(_, _, _)
BigAddC(a, b, c) ==
    IF a = <<>> /\ b = <<>>
    THEN (IF c = 0 THEN <<>> ELSE <<c>>)
    ELSE LET x == IF a = <<>> THEN 0 ELSE Head(a)
             y == IF b = <<>> THEN 0 ELSE Head(b)
             s == x + y + c
         IN  <<s % Base>> \o BigAddC(IF a = <<>> THEN <<>> ELSE Tail(a),
                                     IF b = <<>> THEN <<>> ELSE Tail(b),
                                     s \div Base)

BigAdd(a, b) == BigAddC(a, b, 0)

RECURSIVE BigMulLimbC(_, _, _)
BigMulLimbC(a, k, c) ==
    IF a = <<>>
    THEN (IF c = 0 THEN <<>> ELSE <<c>>)
    ELSE LET s == Head(a) * k + c
         IN  <<s % Base>> \o BigMulLimbC(Tail(a), k, s \div Base)

BigMulLimb(a, k) == IF k = 0 THEN <<>> ELSE BigMulLimbC(a, k, 0)

BigShift(a) == IF a = <<>> THEN <<>> ELSE <<0>> \o a

RECURSIVE BigMul(_, _)
BigMul(a, b) ==
    IF a = <<>> \/ b = <<>>
    THEN <<>>
    ELSE BigAdd(BigMulLimb(b, Head(a)), BigShift(BigMul(Tail(a), b)))

RECURSIVE BigPow(_, _)
BigPow(a, e) == IF e = 0 THEN <<1>> ELSE BigMul(a, BigPow(a, e - 1))

RECURSIVE BigLeqFrom(_, _, _)
BigLeqFrom(a, b, i) ==
    IF i = 0 THEN TRUE
    ELSE IF a[i] # b[i] THEN a[i] < b[i]
    ELSE BigLeqFrom(a, b, i - 1)

BigLeq(a, b) ==
    IF Len(a) # Len(b) THEN Len(a) < Len(b) ELSE BigLeqFrom(a, b, Len(a))

-----------------------------------------------------------------------------
(* Cells of a table: Python/numpy floats.  A finite value is the rational   *)
(* n/d in lowest terms with d > 0; NaN, +inf and -inf are the IEEE special  *)
(* values.  Arithmetic follows numpy's float arithmetic on a column.        *)

RECURSIVE GCD(_, _)
GCD(a, b) == IF b = 0 THEN a ELSE GCD(b, a % b)

Abs(a) == IF a < 0 THEN -a ELSE a

Num(n, d) ==
    LET g == GCD(Abs(n), Abs(d))
        s == IF d < 0 THEN -1 ELSE 1
    IN  [k |-> "num", n |-> (s * n) \div g, d |-> (s * d) \div g]

Int2Cell(i) == [k |-> "num", n |-> i, d |-> 1]
NaN    == [k |-> "nan",  n |-> 0, d |-> 1]
PosInf == [k |-> "inf",  n |-> 0, d |-> 1]
NegInf == [k |-> "-inf", n |-> 0, d |-> 1]

IsNum(x) == x.k = "num"
IsInf(x) == x.k \in {"inf", "-inf"}

\* The sign of a cell that is not NaN: -1, 0 or 1.
Sign(x) ==
    IF x.k = "inf" THEN 1
    ELSE IF x.k = "-inf" THEN -1
    ELSE IF x.n > 0 THEN 1 ELSE IF x.n < 0 THEN -1 ELSE 0

Signed(s) == IF s > 0 THEN PosInf ELSE IF s < 0 THEN NegInf ELSE NaN

\* x <= 0 on floats: False for NaN.
LeqZero(x) == x.k # "nan" /\ Sign(x) <= 0

\* x / y: a finite non-zero value over zero is an infinity, 0/0 is NaN.
Div(x, y) ==
    IF x.k = "nan" \/ y.k = "nan" THEN NaN
    ELSE IF IsInf(x) THEN (IF IsInf(y) THEN NaN
                           ELSE Signed(Sign(x) * (IF Sign(y) < 0 THEN -1 ELSE 1)))
    ELSE IF IsInf(y) THEN Int2Cell(0)
    ELSE IF y.n = 0 THEN Signed(Sign(x))
    ELSE Num(x.n * y.d, x.d * y.n)

\* x * y
Mul(x, y) ==
    IF x.k = "nan" \/ y.k = "nan" THEN NaN
    ELSE IF IsInf(x) \/ IsInf(y) THEN Signed(Sign(x) * Sign(y))
    ELSE Num(x.n * y.n, x.d * y.d)

\* x - y
Sub(x, y) ==
    IF x.k = "nan" \/ y.k = "nan" THEN NaN
    ELSE IF IsInf(x) THEN (IF y.k = x.k THEN NaN ELSE x)
    ELSE IF IsInf(y) THEN Signed(-Sign(y))
    ELSE Num(x.n * y.d - y.n * x.d, x.d * y.d)

-----------------------------------------------------------------------------
(* calculate_cagr                                                          *)

\* calculate_metric_cagrs formats a CAGR with two decimals (":.2f").
Decimals == 2

\* Units per percent at which a CAGR is carried: twice 10^Decimals, so that
\* rounding to Decimals places is decided exactly.
Resolution == 2 * (10 ^ Decimals)

\* A growth factor of 1.0 in those units (1.0 = 100 percent).
One == 100 * Resolution

\* What calculate_cagr returns: None, or a float carried in units of
\* 1/Resolution percent and rounded down, or the float NaN.
None == [k |-> "None", v |-> 0]
Float(v) == [k |-> "float", v |-> v]
FloatNaN == [k |-> "nan", v |-> 0]

\* Floor of One * (num/den)^(1/n), for num >= 0, den > 0, n > 0: the largest m
\* with m^n * den <= num * One^n, found by bisection.
RootOk(m, num, den, n) ==
    BigLeq(BigMul(BigPow(BigFromNat(m), n), BigFromNat(den)),
           BigMul(BigPow(BigFromNat(One), n), BigFromNat(num)))

RECURSIVE RootSearch(_, _, _, _, _)
RootSearch(lo, hi, num, den, n) ==
    IF lo = hi THEN lo
    ELSE LET mid == (lo + hi + 1) \div 2
         IN  IF RootOk(mid, num, den, n)
             THEN RootSearch(mid, hi, num, den, n)
             ELSE RootSearch(lo, mid - 1, num, den, n)

Pow(num, den, n) == RootSearch(0, One * ((num \div den) + 1), num, den, n)

\* ((end_value / start_value) ** (1 / years) - 1) * 100 for finite positive
\* values; a NaN operand gives NaN.
Growth(start_value, end_value, years) ==
    IF start_value.k = "nan" \/ end_value.k = "nan"
    THEN FloatNaN
    ELSE Float(Pow(end_value.n * start_value.d, end_value.d * start_value.n, years) - One)

\* Mutant: the guard tests end_value < 0 instead of end_value <= 0.
calculate_cagr_end_zero(start_value, end_value, years) ==
    IF LeqZero(start_value) \/ (end_value.k # "nan" /\ Sign(end_value) < 0) \/ years <= 0
    THEN None
    ELSE Growth(start_value, end_value, years)

\* The arguments are finite or NaN cells and an integer number of years.
calculate_cagr(start_value, end_value, years) ==
    IF LeqZero(start_value) \/ LeqZero(end_value) \/ years <= 0
    THEN None
    ELSE Growth(start_value, end_value, years)

-----------------------------------------------------------------------------
(* Specification of calculate_cagr alone.                                   *)

MaxYears == 5

CagrValues == {Int2Cell(i) : i \in {-100, -50, 0, 100, 110, 130, 140, 200}} \cup {NaN}
CagrYears == -1 .. MaxYears

InitCagr ==
    /\ fn = "none"
    /\ args \in [start_value : CagrValues, end_value : CagrValues, years : CagrYears]
    /\ ret = NoRet

CalculateCagr ==
    /\ fn = "none"
    /\ fn' = "calculate_cagr"
    /\ ret' = calculate_cagr(args.start_value, args.end_value, args.years)
    /\ UNCHANGED args

NextCagr == CalculateCagr

SpecCagr == InitCagr /\ [][NextCagr]_vars

C1_WitnessNone ==
    /\ fn = "calculate_cagr"
    /\ args = [start_value |-> Int2Cell(-100), end_value |-> Int2Cell(-50), years |-> 5]
    /\ ret = None

-----------------------------------------------------------------------------
(* Tables (pandas DataFrames): n rows, and for every column name the       *)
(* sequence of its n cells.  pd.DataFrame() has no column and no row.      *)

DataFrame(n, col) == [n |-> n, col |-> col]

EmptyDataFrame == DataFrame(0, [c \in {} |-> <<>>])

\* df.columns
columns(df) == DOMAIN df.col

\* len(df)
len(df) == df.n

\* df.empty: no row or no column
empty(df) == df.n = 0 \/ columns(df) = {}

\* df[c].iloc[i] for a negative position i (counted from the end)
iloc(df, c, i) == df.col[c][df.n + 1 + i]

\* df[c] = cells on a copy of df: the column is added or replaced
WithColumn(df, c, cells) ==
    DataFrame(df.n, [x \in columns(df) \cup {c} |-> IF x = c THEN cells ELSE df.col[x]])

-----------------------------------------------------------------------------
(* calculate_metric_cagrs                                                  *)

\* f"{cagr:.2f}%": the float rounded to Decimals places, as a count of
\* hundredths of a percent; "nan%" for NaN.
FormatPct(cagr) ==
    IF cagr.k = "nan"
    THEN [text |-> "nan%", hundredths |-> 0]
    ELSE [text |-> "pct", hundredths |-> (cagr.v + 1) \div 2]

\* f"{period}Y"
Key(period) == ToString(period) \o "Y"

\* cagrs[key] = value
DictSet(cagrs, key, value) ==
    [x \in DOMAIN cagrs \cup {key} |-> IF x = key THEN value ELSE cagrs[x]]

EmptyDict == [x \in {} |-> 0]

\* Mutant: the later value is passed as start_value and the earlier one as
\* end_value.
CagrsStep_swapped(df, metric_col, period, cagrs) ==
    IF len(df) > period /\ metric_col \in columns(df)
    THEN LET end_val   == iloc(df, metric_col, -1)
             start_val == iloc(df, metric_col, -(period + 1))
             cagr      == calculate_cagr(end_val, start_val, period)
         IN  IF cagr # None
             THEN DictSet(cagrs, Key(period), FormatPct(cagr))
             ELSE cagrs
    ELSE cagrs

\* Mutant: a window whose CAGR is undefined is stored as 0.00% instead of
\* being left out.
CagrsStep_zero_fill(df, metric_col, period, cagrs) ==
    IF len(df) > period /\ metric_col \in columns(df)
    THEN LET end_val   == iloc(df, metric_col, -1)
             start_val == iloc(df, metric_col, -(period + 1))
             cagr      == calculate_cagr(start_val, end_val, period)
         IN  IF cagr # None
             THEN DictSet(cagrs, Key(period), FormatPct(cagr))
             ELSE DictSet(cagrs, Key(period), FormatPct(Float(0)))
    ELSE cagrs

\* Mutant: the history test is len(df) >= period.
CagrsStep_geq(df, metric_col, period, cagrs) ==
    IF len(df) >= period /\ metric_col \in columns(df)
    THEN LET end_val   == iloc(df, metric_col, -1)
             start_val == iloc(df, metric_col, IF len(df) = period THEN -period ELSE -(period + 1))
             cagr      == calculate_cagr(start_val, end_val, period)
         IN  IF cagr # None
             THEN DictSet(cagrs, Key(period), FormatPct(cagr))
             ELSE cagrs
    ELSE cagrs

\* The body of the loop over periods.
CagrsStep(df, metric_col, period, cagrs) ==
    IF len(df) > period /\ metric_col \in columns(df)
    THEN LET end_val   == iloc(df, metric_col, -1)
             start_val == iloc(df, metric_col, -(period + 1))
             cagr      == calculate_cagr(start_val, end_val, period)
         IN  IF cagr # None
             THEN DictSet(cagrs, Key(period), FormatPct(cagr))
             ELSE cagrs
    ELSE cagrs

RECURSIVE CagrsLoop(_, _, _, _, _)
CagrsLoop(df, metric_col, periods, i, cagrs) ==
    IF i > Len(periods)
    THEN cagrs
    ELSE CagrsLoop(df, metric_col, periods, i + 1,
                   CagrsStep(df, metric_col, periods[i], cagrs))

calculate_metric_cagrs(df, metric_col, periods) ==
    CagrsLoop(df, metric_col, periods, 1, EmptyDict)

\* the outcome of a call that raises
Raise(type) == [raised |-> type]

RECURSIVE CagrForMetricLoop_unswapped(_, _, _, _, _)
CagrForMetricLoop_unswapped(df, metric_col, periods, i, cagrs) ==
    IF i > Len(periods) THEN cagrs
    ELSE IF ~(len(df) > periods[i])
         THEN CagrForMetricLoop_unswapped(df, metric_col, periods, i + 1, cagrs)
    ELSE IF metric_col \notin columns(df) THEN Raise("KeyError")
    ELSE LET start_val == iloc(df, metric_col, -1)
             end_val   == iloc(df, metric_col, -(periods[i] + 1))
             cagr      == calculate_cagr(start_val, end_val, periods[i])
         IN  CagrForMetricLoop_unswapped(df, metric_col, periods, i + 1,
                IF cagr # None
                THEN DictSet(cagrs, Key(periods[i]), FormatPct(cagr))
                ELSE cagrs)

\* The loop of get_cagr_for_metric (streamlit_app.py) from periods[i].  It
\* names the last value start_val and the earlier one end_val and passes
\* them to calculate_cagr in the order (end_val, start_val); calculate_cagr
\* of streamlit_app.py has the body of MetricsCalculator.calculate_cagr.
\* df[metric_col] raises KeyError when the table lacks the column.
RECURSIVE CagrForMetricLoop(_, _, _, _, _)
CagrForMetricLoop(df, metric_col, periods, i, cagrs) ==
    IF i > Len(periods) THEN cagrs
    ELSE IF ~(len(df) > periods[i])
         THEN CagrForMetricLoop(df, metric_col, periods, i + 1, cagrs)
    ELSE IF metric_col \notin columns(df) THEN Raise("KeyError")
    ELSE LET start_val == iloc(df, metric_col, -1)
             end_val   == iloc(df, metric_col, -(periods[i] + 1))
             cagr      == calculate_cagr(end_val, start_val, periods[i])
         IN  CagrForMetricLoop(df, metric_col, periods, i + 1,
                IF cagr # None
                THEN DictSet(cagrs, Key(periods[i]), FormatPct(cagr))
                ELSE cagrs)

get_cagr_for_metric(df, metric_col, periods) ==
    CagrForMetricLoop(df, metric_col, periods, 1, EmptyDict)

-----------------------------------------------------------------------------
(* Specification of calculate_metric_cagrs.                                 *)

MaxLen == 3
MaxPeriod == 3

\* Values of a metric column: missing, negative, zero and positive.
SeriesValues == {NaN} \cup {Int2Cell(i) : i \in {-100, 0, 100, 140}}

\* The revenue series of the five-year scenario (in units of 1e9) and the
\* metric series of test_calculate_cagrs_success.
ScenarioRevenue == <<100, 110, 120, 130, 140>>
TestMetric == <<100, 110, 120, 130, 150>>

Cells(ints) == [i \in 1 .. Len(ints) |-> Int2Cell(ints[i])]

MetricSeries ==
    UNION {[1 .. n -> SeriesValues] : n \in 0 .. MaxLen}
        \cup {Cells(ScenarioRevenue), Cells(TestMetric)}

\* A table sorted by date with one metric column.
MetricFrame(series) ==
    DataFrame(Len(series),
              [c \in {"date", "revenue"} |->
                  IF c = "date" THEN [i \in 1 .. Len(series) |-> Int2Cell(i)] ELSE series])

MetricFrames == {EmptyDataFrame} \cup {MetricFrame(s) : s \in MetricSeries}

DefaultPeriods == <<1, 2, 3, 5>>
DashboardPeriods == <<1, 3, 5>>

\* Window lengths are positive numbers of years.
PeriodLists ==
    {<<p>> : p \in 1 .. MaxPeriod}
        \cup {<<p, q>> : p \in 1 .. MaxPeriod, q \in 1 .. MaxPeriod}
        \cup {DefaultPeriods, DashboardPeriods}

InitCagrs ==
    /\ fn = "none"
    /\ args \in [df : MetricFrames, metric_col : {"revenue", "nonexistent"},
                 periods : PeriodLists]
    /\ ret = NoRet

CalculateMetricCagrs ==
    /\ fn = "none"
    /\ fn' = "calculate_metric_cagrs"
    /\ ret' = calculate_metric_cagrs(args.df, args.metric_col, args.periods)
    /\ UNCHANGED args

GetCagrForMetric ==
    /\ fn = "none"
    /\ fn' = "get_cagr_for_metric"
    /\ ret' = get_cagr_for_metric(args.df, args.metric_col, args.periods)
    /\ UNCHANGED args

NextCagrs ==
    \/ CalculateMetricCagrs
    \/ GetCagrForMetric

SpecCagrs == InitCagrs /\ [][NextCagrs]_vars

\* The periods requested by the call.
Requested == {args.periods[i] : i \in 1 .. Len(args.periods)}

HasMetric == args.metric_col \in columns(args.df)

\* The end and start values of window p: the last cell of the metric column
\* and the cell p rows before it.
EndOf == args.df.col[args.metric_col][len(args.df)]
StartOf(p) == args.df.col[args.metric_col][len(args.df) - p]

\* The CAGR of window p is defined: neither value is a number <= 0.
Defined(p) == ~LeqZero(StartOf(p)) /\ ~LeqZero(EndOf)

\* v is the two-decimal rendering of ((end/start)^(1/p) - 1) * 100: "nan%"
\* when a value is missing, and otherwise the count h of hundredths of a
\* percent with h - 1/2 <= 100 * CAGR < h + 1/2.
Renders(v, start, end, p) ==
    IF IsNum(start) /\ IsNum(end)
    THEN /\ v.text = "pct"
         /\ LET lo  == 2 * v.hundredths - 1 + One
                rhs == BigMul(BigPow(BigFromNat(One), p), BigFromNat(end.n * start.d))
                den == BigFromNat(end.d * start.n)
            IN  /\ lo >= 0
                /\ BigLeq(BigMul(BigPow(BigFromNat(lo), p), den), rhs)
                /\ ~BigLeq(BigMul(BigPow(BigFromNat(lo + 2), p), den), rhs)
    ELSE v.text = "nan%"

\* C2 as stated: for a table that has the metric column and a single window
\* p, the result contains the key "<p>Y" if and only if len(S) > p.
C2_KeyIffLonger ==
    (fn = "calculate_metric_cagrs" /\ HasMetric /\ Len(args.periods) = 1) =>
        \A p \in Requested : (Key(p) \in DOMAIN ret) <=> (len(args.df) > p)

\* C2 amended: for a table that has the metric column and a single window
\* p >= 1, the result contains the key "<p>Y" if and only if len(S) > p and
\* neither the last value nor the value p rows before it is a number <= 0
\* (calculate_cagr returns None for those and the window is left out).
C2_KeyIffLongerAndDefined ==
    (fn = "calculate_metric_cagrs" /\ HasMetric /\ Len(args.periods) = 1) =>
        \A p \in Requested :
            (Key(p) \in DOMAIN ret) <=> (len(args.df) > p /\ Defined(p))

\* A single window with enough history and positive values is in the result.
C2_Witness ==
    /\ fn = "calculate_metric_cagrs"
    /\ args.periods = <<2>>
    /\ HasMetric
    /\ len(args.df) = 3
    /\ DOMAIN ret = {"2Y"}

C4_OthersReturned ==
    fn = "calculate_metric_cagrs" =>
        /\ (empty(args.df) \/ ~HasMetric) => ret = EmptyDict
        /\ HasMetric =>
              \A p \in Requested :
                  (Key(p) \in DOMAIN ret) <=> (len(args.df) > p)

\* C4 amended: the call returns a map; it is empty for an empty table or a
\* table without the metric column; a requested window is absent (never
\* present with a filler value) when the table has no more than p rows or
\* when its start or end value is a number <= 0, and every other requested
\* window of the same call is returned with its own CAGR, whatever the other
\* windows of the call are.
C4_OmitsOnlyUndefined ==
    fn = "calculate_metric_cagrs" =>
        /\ (empty(args.df) \/ ~HasMetric) => ret = EmptyDict
        /\ DOMAIN ret \subseteq {Key(p) : p \in Requested}
        /\ HasMetric =>
              \A p \in Requested :
                  IF len(args.df) > p /\ Defined(p)
                  THEN /\ Key(p) \in DOMAIN ret
                       /\ Renders(ret[Key(p)], StartOf(p), EndOf, p)
                  ELSE Key(p) \notin DOMAIN ret

\* A call with a window that lacks history and a window that has it returns
\* the second one alone.
C4_Witness ==
    /\ fn = "calculate_metric_cagrs"
    /\ args.periods = <<3, 1>>
    /\ HasMetric
    /\ len(args.df) = 2
    /\ DOMAIN ret = {"1Y"}

\* The call of the five-year revenue scenario.
ScenarioCall ==
    /\ fn = "calculate_metric_cagrs"
    /\ args = [df |-> MetricFrame(Cells(ScenarioRevenue)), metric_col |-> "revenue",
               periods |-> DashboardPeriods]

\* Within one hundredth of a percent.
Approx(v, h) == v.text = "pct" /\ v.hundredths \in (h - 1) .. (h + 1)

\* C5 as stated: revenue 100e9 .. 140e9 with windows [1,3,5] gives 1Y about
\* 7.69%, 3Y about 7.46% and no 5Y entry.
C5_ScenarioAsStated ==
    ScenarioCall =>
        /\ DOMAIN ret = {"1Y", "3Y"}
        /\ Approx(ret["1Y"], 769)
        /\ Approx(ret["3Y"], 746)

\* C5 amended: revenue 100e9 .. 140e9 with windows [1,3,5] gives 1Y 7.69%
\* (140/130), 3Y 8.37% ((140/110)^(1/3)) and no 5Y entry.
C5_Scenario ==
    ScenarioCall =>
        /\ DOMAIN ret = {"1Y", "3Y"}
        /\ ret["1Y"] = [text |-> "pct", hundredths |-> 769]
        /\ ret["3Y"] = [text |-> "pct", hundredths |-> 837]

C5_Witness == ScenarioCall /\ "5Y" \notin DOMAIN ret /\ "3Y" \in DOMAIN ret

-----------------------------------------------------------------------------
(* add_pe_ratio, add_profit_margins, add_fcf_metrics                        *)

\* x > 0 on floats: False for NaN.
GtZero(x) == x.k # "nan" /\ Sign(x) > 0

\* Series.replace([inf, -inf], nan)
ReplaceInf(cells) == [i \in DOMAIN cells |-> IF IsInf(cells[i]) THEN NaN ELSE cells[i]]

\* current_price / income_df['epsDiluted'], row by row
PriceOver(current_price, eps) == [i \in DOMAIN eps |-> Div(current_price, eps[i])]

\* Mutant: the infinities of a zero EPS are left in the pe column.
add_pe_ratio_keeps_inf(income_df, current_price) ==
    IF "epsDiluted" \in columns(income_df) /\ GtZero(current_price)
    THEN WithColumn(income_df, "pe",
                    PriceOver(current_price, income_df.col["epsDiluted"]))
    ELSE income_df

\* Mutant: the price test is current_price >= 0.
add_pe_ratio_zero_price(income_df, current_price) ==
    IF "epsDiluted" \in columns(income_df) /\ ~(current_price.k # "nan" /\ Sign(current_price) < 0)
    THEN LET withPe == WithColumn(income_df, "pe",
                           PriceOver(current_price, income_df.col["epsDiluted"]))
         IN  WithColumn(withPe, "pe", ReplaceInf(withPe.col["pe"]))
    ELSE income_df

add_pe_ratio(income_df, current_price) ==
    IF "epsDiluted" \in columns(income_df) /\ GtZero(current_price)
    THEN LET withPe == WithColumn(income_df, "pe",
                           PriceOver(current_price, income_df.col["epsDiluted"]))
         IN  WithColumn(withPe, "pe", ReplaceInf(withPe.col["pe"]))
    ELSE income_df

margin_metrics ==
    << <<"grossProfit", "grossProfitRatio">>,
       <<"operatingIncome", "operatingIncomeRatio">>,
       <<"netIncome", "netIncomeRatio">> >>

Hundred == Int2Cell(100)

\* Row by row (a / b) * 100.
RatioPct(a, b) == [i \in DOMAIN a |-> Mul(Div(a[i], b[i]), Hundred)]

\* (cashflow_df['fcf_minus_sbc'] / market_cap) * 100, row by row
YieldPct(cells, market_cap) == [i \in DOMAIN cells |-> Mul(Div(cells[i], market_cap), Hundred)]

RECURSIVE MarginsLoop(_, _)
MarginsLoop(income_df, i) ==
    IF i > Len(margin_metrics)
    THEN income_df
    ELSE LET metric    == margin_metrics[i][1]
             ratio_col == margin_metrics[i][2]
         IN  MarginsLoop(
                 IF metric \in columns(income_df)
                 THEN WithColumn(income_df, ratio_col,
                                 RatioPct(income_df.col[metric], income_df.col["revenue"]))
                 ELSE income_df,
                 i + 1)

add_profit_margins(income_df) ==
    IF "revenue" \notin columns(income_df) \/ empty(income_df)
    THEN income_df
    ELSE MarginsLoop(income_df, 1)

\* Mutant: the market-cap test is market_cap != 0.
add_fcf_metrics_nonzero_cap(cashflow_df, market_cap) ==
    IF empty(cashflow_df)
    THEN cashflow_df
    ELSE IF "freeCashFlow" \in columns(cashflow_df)
            /\ "stockBasedCompensation" \in columns(cashflow_df)
         THEN LET fcf_minus_sbc == [i \in 1 .. cashflow_df.n |->
                                       Sub(cashflow_df.col["freeCashFlow"][i],
                                           cashflow_df.col["stockBasedCompensation"][i])]
                  withDiff == WithColumn(cashflow_df, "fcf_minus_sbc", fcf_minus_sbc)
              IN  IF market_cap.k = "nan" \/ Sign(market_cap) # 0
                  THEN WithColumn(withDiff, "fcf_yield",
                                  YieldPct(fcf_minus_sbc, market_cap))
                  ELSE withDiff
         ELSE cashflow_df

\* Mutant: a missing stock-based compensation is counted as zero.
add_fcf_metrics_fill_zero(cashflow_df, market_cap) ==
    IF empty(cashflow_df)
    THEN cashflow_df
    ELSE IF "freeCashFlow" \in columns(cashflow_df)
            /\ "stockBasedCompensation" \in columns(cashflow_df)
         THEN LET sbc(i) == LET x == cashflow_df.col["stockBasedCompensation"][i]
                            IN  IF x.k = "nan" THEN Int2Cell(0) ELSE x
                  fcf_minus_sbc == [i \in 1 .. cashflow_df.n |->
                                       Sub(cashflow_df.col["freeCashFlow"][i], sbc(i))]
                  withDiff == WithColumn(cashflow_df, "fcf_minus_sbc", fcf_minus_sbc)
              IN  IF GtZero(market_cap)
                  THEN WithColumn(withDiff, "fcf_yield",
                                  YieldPct(fcf_minus_sbc, market_cap))
                  ELSE withDiff
         ELSE cashflow_df

add_fcf_metrics(cashflow_df, market_cap) ==
    IF empty(cashflow_df)
    THEN cashflow_df
    ELSE IF "freeCashFlow" \in columns(cashflow_df)
            /\ "stockBasedCompensation" \in columns(cashflow_df)
         THEN LET fcf_minus_sbc == [i \in 1 .. cashflow_df.n |->
                                       Sub(cashflow_df.col["freeCashFlow"][i],
                                           cashflow_df.col["stockBasedCompensation"][i])]
                  withDiff == WithColumn(cashflow_df, "fcf_minus_sbc", fcf_minus_sbc)
              IN  IF GtZero(market_cap)
                  THEN WithColumn(withDiff, "fcf_yield",
                                  YieldPct(fcf_minus_sbc, market_cap))
                  ELSE withDiff
         ELSE cashflow_df

-----------------------------------------------------------------------------
(* The table object that the caller passed to add_pe_ratio,                *)
(* add_profit_margins or add_fcf_metrics, after the call.  Each function   *)
(* rebinds its parameter to a copy of the table before its first column    *)
(* assignment, so no assignment reaches the object passed; returned is the *)
(* table on which the assignments were made.                               *)

Passed_in_place(df, returned) == returned

Passed(df, returned) == df

\* enrich_financial_data: the dict of the two enriched tables
enrich_financial_data(income_df, cashflow_df, market_cap, price) ==
    [income_df |-> add_profit_margins(add_pe_ratio(income_df, price)),
     cashflow_df |-> add_fcf_metrics(cashflow_df, market_cap)]

-----------------------------------------------------------------------------
(* Specification of the enrichment functions: the three functions of the   *)
(* MetricsCalculator on the statement tables, and enrich_financial_data on *)
(* statements of at most one row that have all input columns.              *)

MaxRows == 2

\* A table holding the given rows (records of cells) under the given columns.
FrameOf(rows, cols) ==
    DataFrame(Len(rows), [c \in cols |-> [i \in 1 .. Len(rows) |-> rows[i][c]]])

Row5(eps, revenue, gross, operating, net) ==
    [epsDiluted |-> eps, revenue |-> revenue, grossProfit |-> gross,
     operatingIncome |-> operating, netIncome |-> net]

\* Income-statement rows: ordinary values, zero and negative EPS, zero revenue
\* under positive, zero and negative numerators, and missing values.
IncomeRows ==
    { Row5(Int2Cell(5),  Int2Cell(100), Int2Cell(30), Int2Cell(10),  Int2Cell(-5)),
      Row5(Int2Cell(0),  Int2Cell(0),   Int2Cell(30), Int2Cell(0),   Int2Cell(-5)),
      Row5(Int2Cell(-2), Int2Cell(100), Int2Cell(0),  Int2Cell(-30), Int2Cell(30)),
      Row5(NaN,          NaN,           Int2Cell(30), NaN,           Int2Cell(0)),
      Row5(Int2Cell(5),  Int2Cell(0),   Int2Cell(0),  Int2Cell(0),   Int2Cell(0)),
      Row5(Int2Cell(0),  Int2Cell(200), Int2Cell(60), Int2Cell(20),  Int2Cell(10)) }

IncomeColumns == {"epsDiluted", "revenue", "grossProfit", "operatingIncome", "netIncome"}

\* The rows of a table carry their position as the date.
Dated(rows) == [i \in 1 .. Len(rows) |-> [c \in DOMAIN rows[i] \cup {"date"} |->
                                              IF c = "date" THEN Int2Cell(i) ELSE rows[i][c]]]

\* The last tables are statements that already carry a reported gross margin,
\* as a fraction, under the column name grossProfitRatio.
IncomeFrames ==
    {EmptyDataFrame} \cup
    { FrameOf(Dated(rows), cols \cup {"date"}) :
        rows \in UNION {[1 .. n -> IncomeRows] : n \in 0 .. MaxRows},
        cols \in SUBSET IncomeColumns } \cup
    { WithColumn(FrameOf(Dated(<<row>>), IncomeColumns \cup {"date"}),
                 "grossProfitRatio", <<Num(3, 10)>>) : row \in IncomeRows }

Prices == {Int2Cell(-10), Int2Cell(0), Int2Cell(150)}

Row2(fcf, sbc) == [freeCashFlow |-> fcf, stockBasedCompensation |-> sbc]

\* Cash-flow rows: the FCF = 900, SBC = 50 scenario, negative and zero
\* values, and rows missing one or both inputs.
CashflowRows ==
    { Row2(Int2Cell(900),  Int2Cell(50)),
      Row2(Int2Cell(-200), Int2Cell(0)),
      Row2(Int2Cell(0),    Int2Cell(300)),
      Row2(NaN,            Int2Cell(50)),
      Row2(Int2Cell(900),  NaN),
      Row2(NaN,            NaN) }

CashflowColumns == {"freeCashFlow", "stockBasedCompensation"}

CashflowFrames ==
    {EmptyDataFrame} \cup
    { FrameOf(Dated(rows), cols \cup {"date"}) :
        rows \in UNION {[1 .. n -> CashflowRows] : n \in 0 .. MaxRows},
        cols \in SUBSET CashflowColumns }

MarketCaps == {Int2Cell(-1), Int2Cell(0), Int2Cell(2500)}

\* Either the arguments of a call on the income statement or those of a call
\* on the cash-flow statement.
InitMetrics ==
    /\ fn = "none"
    /\ \/ args \in [income_df : IncomeFrames, current_price : Prices]
       \/ args \in [cashflow_df : CashflowFrames, market_cap : MarketCaps]
       \/ args \in [income_df : {f \in IncomeFrames :
                                    f.n <= 1 /\ IncomeColumns \subseteq columns(f)},
                     cashflow_df : {f \in CashflowFrames :
                                    f.n <= 1 /\ CashflowColumns \subseteq columns(f)}
                                    \cup {EmptyDataFrame},
                     market_cap : MarketCaps, price : Prices]
    /\ ret = NoRet

AddPeRatio ==
    /\ fn = "none"
    /\ "current_price" \in DOMAIN args
    /\ fn' = "add_pe_ratio"
    /\ ret' = add_pe_ratio(args.income_df, args.current_price)
    /\ args' = [args EXCEPT !.income_df = Passed(@, ret')]

AddProfitMargins ==
    /\ fn = "none"
    /\ "current_price" \in DOMAIN args
    /\ fn' = "add_profit_margins"
    /\ ret' = add_profit_margins(args.income_df)
    /\ args' = [args EXCEPT !.income_df = Passed(@, ret')]

AddFcfMetrics ==
    /\ fn = "none"
    /\ "cashflow_df" \in DOMAIN args /\ "price" \notin DOMAIN args
    /\ fn' = "add_fcf_metrics"
    /\ ret' = add_fcf_metrics(args.cashflow_df, args.market_cap)
    /\ args' = [args EXCEPT !.cashflow_df = Passed(@, ret')]

\* the three calls act on the names income_df and cashflow_df of the
\* function, which the caller's tables are not bound to any more
EnrichFinancialData ==
    /\ fn = "none"
    /\ "price" \in DOMAIN args
    /\ fn' = "enrich_financial_data"
    /\ ret' = enrich_financial_data(args.income_df, args.cashflow_df,
                                    args.market_cap, args.price)
    /\ UNCHANGED args

NextMetrics ==
    \/ AddPeRatio
    \/ AddProfitMargins
    \/ AddFcfMetrics
    \/ EnrichFinancialData

SpecMetrics == InitMetrics /\ [][NextMetrics]_vars

\* Table out has the rows of table in, and every column of in with its cells.
Keeps(in, out) ==
    /\ out.n = in.n
    /\ columns(in) \subseteq columns(out)
    /\ \A c \in columns(in) : out.col[c] = in.col[c]

\* C6: add_pe_ratio with a price <= 0, or on a table without an epsDiluted
\* column, returns the table it was given: the same columns (no pe column)
\* and the same rows.
C6_PeUnchanged ==
    (fn = "add_pe_ratio"
        /\ (~GtZero(args.current_price) \/ "epsDiluted" \notin columns(args.income_df))) =>
        /\ ret = args.income_df
        /\ "pe" \notin columns(ret)

\* A table with an epsDiluted column and rows, passed with price 0.
C6_Witness ==
    /\ fn = "add_pe_ratio"
    /\ args.current_price = Int2Cell(0)
    /\ "epsDiluted" \in columns(args.income_df)
    /\ len(args.income_df) = 2
    /\ ret = args.income_df

\* C7: add_pe_ratio with a price > 0 on a table with an epsDiluted column
\* keeps every period and every column and adds pe, which is price / EPS for
\* a non-zero EPS and NaN for a zero (or missing) EPS, and never an infinity.
C7_PeCells ==
    (fn = "add_pe_ratio" /\ GtZero(args.current_price)
        /\ "epsDiluted" \in columns(args.income_df)) =>
        /\ Keeps(args.income_df, ret)
        /\ columns(ret) = columns(args.income_df) \cup {"pe"}
        /\ Len(ret.col["pe"]) = len(args.income_df)
        /\ \A i \in 1 .. len(args.income_df) :
              LET eps == args.income_df.col["epsDiluted"][i]
                  pe  == ret.col["pe"][i]
              IN  /\ ~IsInf(pe)
                  /\ IF IsNum(eps) /\ eps.n # 0
                     THEN /\ IsNum(pe)
                          /\ pe.n * eps.n * args.current_price.d
                                 = args.current_price.n * eps.d * pe.d
                     ELSE pe = NaN

\* test_pe_ratio_with_zero_eps: a zero EPS in the first period and a positive
\* one in the second, at price 150.
C7_Witness ==
    /\ fn = "add_pe_ratio"
    /\ args.current_price = Int2Cell(150)
    /\ "epsDiluted" \in columns(args.income_df)
    /\ len(args.income_df) = 2
    /\ args.income_df.col["epsDiluted"] = <<Int2Cell(0), Int2Cell(5)>>
    /\ ret.col["pe"] = <<NaN, Int2Cell(30)>>

RatioColumns == {margin_metrics[i][2] : i \in 1 .. Len(margin_metrics)}

\* C8: after add_profit_margins every period is still in the table, and in a
\* period whose revenue is zero every computed margin cell is NaN, never an
\* infinity.
C8_ZeroRevenueUndefined ==
    fn = "add_profit_margins" =>
        /\ ret.n = args.income_df.n
        /\ "revenue" \in columns(args.income_df) =>
              \A i \in 1 .. len(args.income_df) :
                  args.income_df.col["revenue"][i] = Int2Cell(0) =>
                      \A c \in RatioColumns \cap columns(ret) : ret.col[c][i] = NaN

\* C9: add_fcf_metrics on a non-empty table with freeCashFlow and
\* stockBasedCompensation always adds fcf_minus_sbc; it adds fcf_yield if and
\* only if market_cap > 0, and then fcf_yield is fcf_minus_sbc / market_cap *
\* 100 in every period.
C9_YieldIffPositiveCap ==
    (fn = "add_fcf_metrics" /\ ~empty(args.cashflow_df)
        /\ CashflowColumns \subseteq columns(args.cashflow_df)) =>
        /\ "fcf_minus_sbc" \in columns(ret)
        /\ ("fcf_yield" \in columns(ret)) <=> GtZero(args.market_cap)
        /\ "fcf_yield" \in columns(ret) =>
              /\ Len(ret.col["fcf_yield"]) = len(args.cashflow_df)
              /\ \A i \in 1 .. len(args.cashflow_df) :
                    LET d == ret.col["fcf_minus_sbc"][i]
                        y == ret.col["fcf_yield"][i]
                    IN  IF IsNum(d)
                        THEN /\ IsNum(y)
                             /\ y.n * d.d * args.market_cap.n
                                    = 100 * d.n * args.market_cap.d * y.d
                        ELSE y = NaN

\* test_fcf_yield_with_zero_market_cap: both columns, rows, market cap 0.
C9_Witness ==
    /\ fn = "add_fcf_metrics"
    /\ args.market_cap = Int2Cell(0)
    /\ len(args.cashflow_df) = 2
    /\ CashflowColumns \subseteq columns(args.cashflow_df)
    /\ "fcf_minus_sbc" \in columns(ret)
    /\ "fcf_yield" \notin columns(ret)

\* The yield of a positive market cap: (900 - 50) / 2500 * 100 = 34.
C9_WitnessYield ==
    /\ fn = "add_fcf_metrics"
    /\ args.market_cap = Int2Cell(2500)
    /\ "fcf_yield" \in columns(ret)
    /\ ret.col["fcf_yield"] = <<Int2Cell(34)>>

\* C10: when both columns are there (and the table has rows), fcf_minus_sbc
\* holds freeCashFlow - stockBasedCompensation in the periods where both
\* inputs are present and no value (NaN) in a period where one is missing;
\* when a column is missing the table is returned without fcf_minus_sbc and
\* without fcf_yield.
C10_DiffNeedsBothInputs ==
    fn = "add_fcf_metrics" =>
        IF CashflowColumns \subseteq columns(args.cashflow_df)
        THEN ~empty(args.cashflow_df) =>
                /\ Keeps(args.cashflow_df, ret)
                /\ Len(ret.col["fcf_minus_sbc"]) = len(args.cashflow_df)
                /\ \A i \in 1 .. len(args.cashflow_df) :
                      LET fcf == args.cashflow_df.col["freeCashFlow"][i]
                          sbc == args.cashflow_df.col["stockBasedCompensation"][i]
                          d   == ret.col["fcf_minus_sbc"][i]
                      IN  IF IsNum(fcf) /\ IsNum(sbc)
                          THEN /\ IsNum(d)
                               /\ d.n * fcf.d * sbc.d = (fcf.n * sbc.d - sbc.n * fcf.d) * d.d
                          ELSE d = NaN
        ELSE /\ ret = args.cashflow_df
             /\ "fcf_minus_sbc" \notin columns(ret)
             /\ "fcf_yield" \notin columns(ret)

\* FCF = 900 and SBC = 50 give 850; the period without SBC has no value.
C10_Witness ==
    /\ fn = "add_fcf_metrics"
    /\ len(args.cashflow_df) = 2
    /\ CashflowColumns \subseteq columns(args.cashflow_df)
    /\ args.cashflow_df.col["freeCashFlow"] = <<Int2Cell(900), Int2Cell(900)>>
    /\ args.cashflow_df.col["stockBasedCompensation"] = <<Int2Cell(50), NaN>>
    /\ ret.col["fcf_minus_sbc"] = <<Int2Cell(850), NaN>>

-----------------------------------------------------------------------------
(* Purity of the enrichment functions, and the result of                   *)
(* enrich_financial_data.                                                  *)

Enrichments == {"add_pe_ratio", "add_profit_margins", "add_fcf_metrics"}

\* the table given to the enrichment function that is called
TableGiven ==
    IF "current_price" \in DOMAIN args THEN args.income_df ELSE args.cashflow_df

\* the columns that the enrichment functions compute
DerivedColumns ==
    {"pe", "grossProfitRatio", "operatingIncomeRatio", "netIncomeRatio",
     "fcf_minus_sbc", "fcf_yield"}

NotComputed ==
    {c \in {"pe", "grossProfitRatio", "operatingIncomeRatio", "netIncomeRatio"} :
        c \notin columns(ret.income_df)}
    \cup {c \in {"fcf_minus_sbc", "fcf_yield"} : c \notin columns(ret.cashflow_df)}

\* C25: enrich_financial_data returns, together with the two enriched
\* tables, a record of every derived column that could not be computed and
\* of the reason; so the result of a call that could not compute some
\* derived column holds more than the two tables.
C25_RecordsNotComputed ==
    (fn = "enrich_financial_data" /\ NotComputed # {}) =>
        \E key \in DOMAIN ret :
            /\ key \notin {"income_df", "cashflow_df"}
            /\ \A c \in NotComputed : c \in DOMAIN ret[key]

-----------------------------------------------------------------------------
(* The call sites of calculate_cagr.                                       *)

-----------------------------------------------------------------------------
(***************************************************************************)
(* SEC EDGAR company facts (sec_edgar_api.py, and the older copy of the    *)
(* same functions in main.py).                                             *)
(*                                                                         *)
(* A Python value whose type the code tests is a record of its type and    *)
(* its items: the (key, value) pairs of a dict in insertion order, which   *)
(* is the order in which .items() yields them, the elements of a list, the *)
(* one number of an int, the one text of a str, nothing for None.          *)
(***************************************************************************)
Py(type, items) == [type |-> type, items |-> items]

\* str(unit_key).upper()
RECURSIVE upper(_)
upper(s) ==
    LET lower == "abcdefghijklmnopqrstuvwxyz"
        caps == "ABCDEFGHIJKLMNOPQRSTUVWXYZ"
        c == SubSeq(s, 1, 1)
        at == {i \in 1 .. Len(lower) : SubSeq(lower, i, i) = c}
    IN  IF Len(s) = 0 THEN ""
        ELSE (IF at = {} THEN c
              ELSE LET i == CHOOSE j \in at : TRUE IN SubSeq(caps, i, i))
                \o upper(SubSeq(s, 2, Len(s)))

\* sub in s, for strings
In(sub, s) ==
    \E i \in 1 .. Len(s) - Len(sub) + 1 : SubSeq(s, i, i + Len(sub) - 1) = sub

IsUsdKey_exact(unit_key) == unit_key = "USD"

\* the test of one unit label in _get_usd_observations
IsUsdKey(unit_key) == In("USD", upper(unit_key))

\* the loop of _get_usd_observations over units_dict.items(), from item i
RECURSIVE UsdLoop(_, _, _)
UsdLoop(items, i, observations) ==
    IF i > Len(items) THEN observations
    ELSE LET unit_key == items[i][1]
             obs == items[i][2]
         IN  UsdLoop(items, i + 1,
                     IF IsUsdKey(unit_key) /\ obs.type = "list"
                     THEN observations \o obs.items
                     ELSE observations)

_get_usd_observations(units_dict) ==
    IF units_dict.type # "dict" THEN <<>>
    ELSE UsdLoop(units_dict.items, 1, <<>>)

\* tag.split("/", 1): the text before the first separator and the text after
\* it; the text itself when it holds no separator
split(s, sep) ==
    IF ~In(sep, s) THEN <<s>>
    ELSE LET i == CHOOSE j \in 1 .. Len(s) :
                    /\ SubSeq(s, j, j + Len(sep) - 1) = sep
                    /\ \A k \in 1 .. j - 1 : SubSeq(s, k, k + Len(sep) - 1) # sep
         IN  <<SubSeq(s, 1, i - 1), SubSeq(s, i + Len(sep), Len(s))>>

\* facts.get("facts", {}).get(taxonomy, {}).get(name, {}).get("units", {}):
\* the facts are nested dicts that the code only reads with .get(key, {}),
\* so they are functions from the keys present, and {} is EmptyDict
UnitsOf(facts, taxonomy, name) ==
    LET get(d, key, default) == IF key \in DOMAIN d THEN d[key] ELSE default
        series == get(get(get(facts, "facts", EmptyDict), taxonomy, EmptyDict),
                      name, EmptyDict)
    IN  get(series, "units", Py("dict", <<>>))

\* every caller passes a tag that holds "/", so the unpacking succeeds
_get_facts_for_tag(facts, tag) ==
    LET taxonomy == split(tag, "/")[1]
        name == split(tag, "/")[2]
    IN  _get_usd_observations(UnitsOf(facts, taxonomy, name))

\* the observations that _try_multiple_tags (sec_edgar_api.py) collects for
\* one tag: a tag without taxonomy is looked up in dei, then in us-gaap
TagObservations(facts, tag) ==
    IF In("/", tag) THEN _get_facts_for_tag(facts, tag)
    ELSE _get_usd_observations(UnitsOf(facts, "dei", tag))
            \o _get_usd_observations(UnitsOf(facts, "us-gaap", tag))

RECURSIVE try_multiple_tags_last(_, _)
try_multiple_tags_last(facts, tags) ==
    IF tags = <<>> THEN <<>>
    ELSE LET rest == try_multiple_tags_last(facts, Tail(tags))
         IN  IF rest # <<>> THEN rest ELSE TagObservations(facts, Head(tags))

\* _try_multiple_tags (sec_edgar_api.py): the loop over the tags
RECURSIVE _try_multiple_tags(_, _)
_try_multiple_tags(facts, tags) ==
    IF tags = <<>> THEN <<>>
    ELSE LET observations == TagObservations(facts, Head(tags))
         IN  IF observations # <<>> THEN observations
             ELSE _try_multiple_tags(facts, Tail(tags))

\* _try_multiple_tags (main.py): the loop over the tags
RECURSIVE main_try_multiple_tags(_, _)
main_try_multiple_tags(facts, tags) ==
    IF tags = <<>> THEN <<>>
    ELSE LET observations == _get_facts_for_tag(facts, Head(tags))
         IN  IF observations # <<>> THEN observations
             ELSE main_try_multiple_tags(facts, Tail(tags))

\* comparison of two str by code point, for ISO dates
RECURSIVE StrLess(_, _)
StrLess(a, b) ==
    LET points == "-0123456789"
        Ord(c) == CHOOSE i \in 1 .. Len(points) : SubSeq(points, i, i) = c
    IN  IF Len(b) = 0 THEN FALSE
        ELSE IF Len(a) = 0 THEN TRUE
        ELSE \/ Ord(SubSeq(a, 1, 1)) < Ord(SubSeq(b, 1, 1))
             \/ /\ Ord(SubSeq(a, 1, 1)) = Ord(SubSeq(b, 1, 1))
                /\ StrLess(SubSeq(a, 2, Len(a)), SubSeq(b, 2, Len(b)))

\* annuals: the observations with fp == "FY" whose val is a number
Annuals(observations) ==
    SelectSeq(observations, LAMBDA obs : obs.fp = "FY" /\ obs.val.type = "int")

SortKeyLess_filed(a, b) ==
    a.fy < b.fy \/ (a.fy = b.fy /\ StrLess(a.filed, b.filed))

\* the order of the sort key (int(fy), end) of two observations
SortKeyLess(a, b) ==
    a.fy < b.fy \/ (a.fy = b.fy /\ StrLess(a.end, b.end))

\* annuals.sort(key=..., reverse=True), from list[i] on.  The sort is stable:
\* an observation goes behind those sorted so far whose key is not below
\* its own, so observations with equal keys keep their order.
RECURSIVE SortDescending(_, _, _)
SortDescending(list, i, sorted) ==
    IF i > Len(list) THEN sorted
    ELSE LET x == list[i]
             ahead == {k \in 0 .. Len(sorted) :
                        \A j \in 1 .. k : ~SortKeyLess(sorted[j], x)}
             k == CHOOSE m \in ahead : \A j \in ahead : j <= m
         IN  SortDescending(list, i + 1,
                SubSeq(sorted, 1, k) \o <<x>> \o SubSeq(sorted, k + 1, Len(sorted)))

\* one entry of the result; float(obs["val"]) is the number itself
AnnualEntry(obs) ==
    [year |-> obs.fy, value |-> obs.val.items[1], end_date |-> obs.end,
     filed |-> obs.filed]

\* the loop of _extract_annual_values (sec_edgar_api.py) from annuals[i]
RECURSIVE AnnualLoop(_, _, _, _, _)
AnnualLoop(annuals, years, i, seen_years, result) ==
    IF i > Len(annuals) THEN result
    ELSE LET obs == annuals[i]
             yr == obs.fy
         IN  IF yr \in seen_years
             THEN AnnualLoop(annuals, years, i + 1, seen_years, result)
             ELSE LET appended == Append(result, AnnualEntry(obs))
                  IN  IF Len(appended) >= years THEN appended
                      ELSE AnnualLoop(annuals, years, i + 1,
                                      seen_years \cup {yr}, appended)

_extract_annual_values(observations, years) ==
    AnnualLoop(SortDescending(Annuals(observations), 1, <<>>), years, 1, {}, <<>>)

\* _extract_annual_values (main.py): one entry for each of annuals[:years]
main_extract_annual_values(observations, years) ==
    LET annuals == SortDescending(Annuals(observations), 1, <<>>)
        kept == IF years < Len(annuals) THEN years ELSE Len(annuals)
    IN  [i \in 1 .. kept |-> AnnualEntry(annuals[i])]

TAG_CANDIDATES ==
    [cfo |-> <<"us-gaap/NetCashProvidedByUsedInOperatingActivities",
               "us-gaap/NetCashProvidedByUsedInOperatingActivitiesContinuingOperations">>,
     capex |-> <<"us-gaap/PaymentsToAcquirePropertyPlantAndEquipment",
                 "us-gaap/PaymentsToAcquireProductiveAssets">>,
     sbc |-> <<"us-gaap/ShareBasedCompensation",
               "us-gaap/AllocatedShareBasedCompensationExpense">>,
     shares |-> <<"EntityCommonStockSharesOutstanding",
                  "CommonStockSharesOutstanding",
                  "WeightedAverageNumberOfSharesOutstandingBasic">>]

\* years=5 in the calls of _extract_annual_values
AnnualYears == 5

RECURSIVE FcfLoop_forward_fill(_, _, _, _)
FcfLoop_forward_fill(cfo_annual, capex_annual, i, fcf_annual) ==
    IF i > Len(cfo_annual) THEN fcf_annual
    ELSE LET cfo_year == cfo_annual[i]
             year == cfo_year.year
             found == SelectSeq(capex_annual, LAMBDA c : c.year = year) \o capex_annual
         IN  FcfLoop_forward_fill(cfo_annual, capex_annual, i + 1,
                IF found # <<>>
                THEN Append(fcf_annual,
                            [year |-> year,
                             value |-> cfo_year.value - found[1].value,
                             cfo |-> cfo_year.value,
                             capex |-> found[1].value])
                ELSE fcf_annual)

\* the loop of get_financial_data that computes FCF = CFO - CapEx for each
\* year of cfo_annual; next(...) finds the first entry of capex_annual of
\* that year
RECURSIVE FcfLoop(_, _, _, _)
FcfLoop(cfo_annual, capex_annual, i, fcf_annual) ==
    IF i > Len(cfo_annual) THEN fcf_annual
    ELSE LET cfo_year == cfo_annual[i]
             year == cfo_year.year
             found == SelectSeq(capex_annual, LAMBDA c : c.year = year)
         IN  FcfLoop(cfo_annual, capex_annual, i + 1,
                IF found # <<>>
                THEN Append(fcf_annual,
                            [year |-> year,
                             value |-> cfo_year.value - found[1].value,
                             cfo |-> cfo_year.value,
                             capex |-> found[1].value])
                ELSE fcf_annual)

\* get_shares_outstanding: the most recent number of shares in the facts,
\* or None.  facts.get raises AttributeError when the facts are no dict.
\* all_facts = {**dei_facts, **us_gaap_facts} holds, for a name that both
\* taxonomies have, the concept of us-gaap: the dict unpacked later
\* overwrites the entry of the dict unpacked before it.  A label holds
\* "shares" in lower case exactly when it holds "SHARES" in upper case.
get_shares_outstanding(facts) ==
    IF "type" \in DOMAIN facts
    THEN [raised |-> "AttributeError",
          message |-> "'" \o facts.type \o "' object has no attribute 'get'"]
    ELSE
    LET get(d, key, default) == IF key \in DOMAIN d THEN d[key] ELSE default
        dei_facts == get(get(facts, "facts", EmptyDict), "dei", EmptyDict)
        us_gaap_facts == get(get(facts, "facts", EmptyDict), "us-gaap", EmptyDict)
        all_facts == [tag \in DOMAIN dei_facts \cup DOMAIN us_gaap_facts |->
                        IF tag \in DOMAIN us_gaap_facts THEN us_gaap_facts[tag]
                        ELSE dei_facts[tag]]
        tags == TAG_CANDIDATES.shares
        RECURSIVE extend(_, _, _)
        extend(items, i, shares_data) ==
            IF i > Len(items) THEN shares_data
            ELSE extend(items, i + 1,
                        IF In("SHARES", upper(items[i][1])) /\ items[i][2].type = "list"
                        THEN shares_data \o items[i][2].items
                        ELSE shares_data)
        \* shares_data.sort(key=end, reverse=True), a stable sort
        RECURSIVE sort(_, _, _)
        sort(list, i, sorted) ==
            IF i > Len(list) THEN sorted
            ELSE LET ahead == {k \in 0 .. Len(sorted) :
                                \A j \in 1 .. k : ~StrLess(sorted[j].end, list[i].end)}
                     k == CHOOSE m \in ahead : \A j \in ahead : j <= m
                 IN  sort(list, i + 1,
                          SubSeq(sorted, 1, k) \o <<list[i]>>
                            \o SubSeq(sorted, k + 1, Len(sorted)))
        shares_data(tag) ==
            sort(extend(get(all_facts[tag], "units", Py("dict", <<>>)).items, 1, <<>>),
                 1, <<>>)
        Positive(tag) ==
            {k \in 1 .. Len(shares_data(tag)) :
                /\ shares_data(tag)[k].val.type \in {"int", "float"}
                /\ shares_data(tag)[k].val.items[1] > 0}
        returning == {i \in 1 .. Len(tags) :
                        tags[i] \in DOMAIN all_facts /\ Positive(tags[i]) # {}}
    IN  IF returning = {} THEN Py("NoneType", <<>>)
        ELSE LET tag == tags[CHOOSE i \in returning : \A j \in returning : i <= j]
                 k == CHOOSE m \in Positive(tag) : \A n \in Positive(tag) : m <= n
             IN  Py("float", shares_data(tag)[k].val.items)

\* get_shares_outstanding (main.py): the same statements
main_get_shares_outstanding(facts) == get_shares_outstanding(facts)

\* the market cap of main.py: computed only when Yahoo gave none
MarketCap_when_none(market_data, shares_outstanding) ==
    LET quoted == "price" \in DOMAIN market_data
        price == IF quoted THEN market_data.price ELSE Py("NoneType", <<>>)
        market_cap == IF quoted THEN market_data.market_cap ELSE Py("NoneType", <<>>)
        Truthy(x) == x.type # "NoneType" /\ x.items[1] # 0
    IN  IF market_cap.type = "NoneType" /\ Truthy(price) /\ Truthy(shares_outstanding)
        THEN Py("float", <<price.items[1] * shares_outstanding.items[1]>>)
        ELSE market_cap

\* the market cap that get_financial_data (sec_edgar_api.py) reports.
\* market_data is the quote of get_yahoo_quote, a dict with a price and a
\* market cap, or None.  abs(...) / max(market_cap, 1) > 0.30 is the
\* comparison of the quotient with three tenths, decided here in whole
\* numbers: a / b > 30 / 100 exactly when 100 * a > 30 * b, for b >= 1.
MarketCap(market_data, shares_outstanding) ==
    LET quoted == "price" \in DOMAIN market_data
        price == IF quoted THEN market_data.price ELSE Py("NoneType", <<>>)
        market_cap == IF quoted THEN market_data.market_cap ELSE Py("NoneType", <<>>)
        Truthy(x) == x.type # "NoneType" /\ x.items[1] # 0
        abs(x) == IF x < 0 THEN 0 - x ELSE x
        max(x, y) == IF x > y THEN x ELSE y
        computed_mc == price.items[1] * shares_outstanding.items[1]
    IN  IF Truthy(price) /\ Truthy(shares_outstanding)
        THEN IF market_cap.type = "NoneType" THEN Py("float", <<computed_mc>>)
             ELSE IF 100 * abs(market_cap.items[1] - computed_mc)
                        > 30 * max(market_cap.items[1], 1)
                  THEN Py("float", <<computed_mc>>)
                  ELSE market_cap
        ELSE market_cap

\* the response of a successful call, with the quote, the shares and the
\* annual series it carries
Success(market_data, market_cap, shares_outstanding, fcf_annual, capex_annual, sbc_annual) ==
    [status |-> "success",
     data |-> [stock_price |-> IF "price" \in DOMAIN market_data
                               THEN market_data.price ELSE Py("NoneType", <<>>),
               market_cap |-> market_cap,
               shares_outstanding |-> shares_outstanding,
               free_cash_flow_annual |-> fcf_annual,
               capex_annual |-> capex_annual,
               stock_based_compensation_annual |-> sbc_annual]]

\* without the except clause the exception leaves the function
Error_reraised(e) == e

\* the response built by except Exception as e
Error(e) ==
    [status |-> "error",
     error |-> [message |-> e.message, type |-> e.raised],
     data |-> Py("NoneType", <<>>)]

\* get_financial_data (sec_edgar_api.py).  sec is what the requests to the
\* SEC end in: the CIK of the ticker, or the exception that
\* get_cik_for_ticker, get_company_metadata or get_company_facts raises;
\* market_data is what get_yahoo_quote returns and facts what
\* get_company_facts returns.  The whole body is in try: an exception of any
\* statement ends in the response of the except clause.
get_financial_data(sec, market_data, facts) ==
    IF "raised" \in DOMAIN sec THEN Error(sec)
    ELSE LET shares_outstanding == get_shares_outstanding(facts)
             cfo_observations == _try_multiple_tags(facts, TAG_CANDIDATES.cfo)
             capex_observations == _try_multiple_tags(facts, TAG_CANDIDATES.capex)
             sbc_observations == _try_multiple_tags(facts, TAG_CANDIDATES.sbc)
             cfo_annual == _extract_annual_values(cfo_observations, AnnualYears)
             capex_annual == _extract_annual_values(capex_observations, AnnualYears)
             sbc_annual == _extract_annual_values(sbc_observations, AnnualYears)
         IN  IF "raised" \in DOMAIN shares_outstanding THEN Error(shares_outstanding)
             ELSE Success(market_data, MarketCap(market_data, shares_outstanding),
                          shares_outstanding,
                          FcfLoop(cfo_annual, capex_annual, 1, <<>>),
                          capex_annual, sbc_annual)

\* get_financial_data (main.py): the market cap is computed from the price
\* and the shares only when Yahoo gave none
main_get_financial_data(sec, market_data, facts) ==
    IF "raised" \in DOMAIN sec THEN Error(sec)
    ELSE LET shares_outstanding == main_get_shares_outstanding(facts)
             quoted == "price" \in DOMAIN market_data
             price == IF quoted THEN market_data.price ELSE Py("NoneType", <<>>)
             quoted_cap == IF quoted THEN market_data.market_cap
                           ELSE Py("NoneType", <<>>)
             Truthy(x) == x.type # "NoneType" /\ x.items[1] # 0
             market_cap ==
                IF quoted_cap.type = "NoneType" /\ Truthy(price)
                    /\ Truthy(shares_outstanding)
                THEN Py("float", <<price.items[1] * shares_outstanding.items[1]>>)
                ELSE quoted_cap
             cfo_observations == main_try_multiple_tags(facts, TAG_CANDIDATES.cfo)
             capex_observations == main_try_multiple_tags(facts, TAG_CANDIDATES.capex)
             sbc_observations == main_try_multiple_tags(facts, TAG_CANDIDATES.sbc)
             cfo_annual == main_extract_annual_values(cfo_observations, AnnualYears)
             capex_annual == main_extract_annual_values(capex_observations, AnnualYears)
             sbc_annual == main_extract_annual_values(sbc_observations, AnnualYears)
         IN  IF "raised" \in DOMAIN shares_outstanding THEN Error(shares_outstanding)
             ELSE Success(market_data, market_cap, shares_outstanding,
                          FcfLoop(cfo_annual, capex_annual, 1, <<>>),
                          capex_annual, sbc_annual)

-----------------------------------------------------------------------------
(***************************************************************************)
(* Specification of the functions on company facts.  The arguments of a    *)
(* call are those of one of the functions:                                 *)
(*   units_dict          a dict of at most MaxUnits unit labels, or a      *)
(*                       value that is no dict;                            *)
(*   facts, tags         a company that has some of the concepts Foo, Bar  *)
(*                       and FooBarBaz, each with one observation of its   *)
(*                       own in dollars or in shares, and at most MaxTags  *)
(*                       candidate tags;                                   *)
(*   observations, years at most MaxObs observations of one concept, among *)
(*                       them two annual ones of one fiscal year, a        *)
(*                       restatement, quarterly ones and one without a     *)
(*                       number, and 1 .. MaxKept years;                   *)
(*   ticker, sec, market_data, facts                                       *)
(*                       the responses of the SEC and of Yahoo to          *)
(*                       get_financial_data: an exception of the SEC; or   *)
(*                       no quote and facts in which each candidate        *)
(*                       concept of CFO, CapEx and SBC is absent or        *)
(*                       reports in one of four ways; or a quote and facts *)
(*                       in which some concepts of the shares outstanding  *)
(*                       are reported; or a response that is no dict.      *)
(***************************************************************************)
MaxUnits == 2
MaxTags == 2
MaxObs == 3
MaxKept == 2

\* one observation of a concept, as the SEC publishes it
Observation(fy, fp, end, val, filed) ==
    [fy |-> fy, fp |-> fp, end |-> end, val |-> val, filed |-> filed]

\* the lists of n elements of S
RECURSIVE Lists(_, _)
Lists(S, n) ==
    IF n = 0 THEN {<<>>}
    ELSE {Append(l, x) : l \in Lists(S, n - 1), x \in S}

UnitsDicts ==
    LET a == Observation(2023, "FY", "2023-12-31", Py("int", <<100>>), "2024-02-01")
        b == Observation(2022, "FY", "2022-12-31", Py("int", <<90>>), "2023-02-01")
        labels == {"USD", "usd", "USD/shares", "iso4217:Usd", "shares", "EUR"}
        values == {Py("list", o) : o \in {<<>>, <<a>>, <<b>>, <<a, b>>}}
                    \cup {Py("NoneType", <<>>)}
    IN  {Py("dict", items) :
            items \in {it \in UNION {Lists(labels \X values, n) : n \in 0 .. MaxUnits} :
                        \A i, j \in 1 .. Len(it) : i # j => it[i][1] # it[j][1]}}

\* the concepts a company may report, with the value of their observation
Concepts ==
    {<<"dei", "Foo", 1>>, <<"us-gaap", "Foo", 2>>, <<"us-gaap", "Bar", 3>>,
     <<"us-gaap", "FooBarBaz", 4>>}

\* the facts of the companies that have some of the concepts, each with one
\* observation under the label USD or under the label shares
CompanyFacts ==
    LET ObservationOf(c) ==
            Observation(2023, "FY", "2023-12-31", Py("int", <<c[3]>>), "2024-02-01")
        FactsWith(labels) ==
            [facts |->
                [taxonomy \in {c[1] : c \in DOMAIN labels} |->
                    [name \in {c[2] : c \in {d \in DOMAIN labels : d[1] = taxonomy}} |->
                        LET c == CHOOSE d \in DOMAIN labels :
                                    d[1] = taxonomy /\ d[2] = name
                        IN  [units |-> Py("dict",
                                <<<<labels[c], Py("list", <<ObservationOf(c)>>)>>>>)]]]]
    IN  {FactsWith(labels) :
            labels \in UNION {[present -> {"USD", "shares"}] : present \in SUBSET Concepts}}

CandidateTags == {"us-gaap/Foo", "us-gaap/Bar", "dei/Foo", "Foo", "FooBarBaz"}

ConceptObservations ==
    {Observation(2023, "FY", "2023-12-31", Py("int", <<100>>), "2024-02-01"),
     Observation(2023, "FY", "2023-09-30", Py("int", <<95>>), "2024-03-01"),
     Observation(2022, "FY", "2022-12-31", Py("int", <<90>>), "2023-02-01"),
     Observation(2022, "FY", "2022-12-31", Py("int", <<91>>), "2024-02-01"),
     Observation(2021, "FY", "2021-12-31", Py("int", <<80>>), "2022-02-01"),
     Observation(2023, "Q3", "2023-09-30", Py("int", <<25>>), "2023-11-01"),
     Observation(2024, "Q1", "2024-03-31", Py("int", <<35>>), "2024-05-01"),
     Observation(2024, "FY", "2024-12-31", Py("NoneType", <<>>), "2025-02-01")}

\* the facts in which each candidate concept of TAG_CANDIDATES is absent or
\* reports one fiscal year, two fiscal years (the older first and repeated),
\* in shares instead of dollars, or in quarters only; the second candidate
\* of a metric, when present, reports one year
ReportedFacts ==
    LET Value(c, fy) ==
            (CASE c[1] = "cfo" -> 1000 [] c[1] = "capex" -> 100 [] c[1] = "sbc" -> 50)
                + 10 * (fy - 2022) + (c[2] - 1)
        Annual(c, fy) ==
            Observation(fy, "FY", ToString(fy) \o "-12-31",
                        Py("int", <<Value(c, fy)>>), ToString(fy + 1) \o "-02-01")
        Units(c, reporting) ==
            CASE reporting = "one year" ->
                    Py("dict", <<<<"USD", Py("list", <<Annual(c, 2023)>>)>>>>)
              [] reporting = "two years" ->
                    Py("dict", <<<<"USD", Py("list", <<Annual(c, 2022), Annual(c, 2023),
                                                      Annual(c, 2022)>>)>>>>)
              [] reporting = "shares" ->
                    Py("dict", <<<<"shares", Py("list", <<Annual(c, 2023)>>)>>>>)
              [] reporting = "quarters" ->
                    Py("dict", <<<<"USD", Py("list",
                        <<Observation(2023, "Q3", "2023-09-30",
                                      Py("int", <<Value(c, 2023)>>), "2023-11-01")>>)>>>>)
        Name(c) == split(TAG_CANDIDATES[c[1]][c[2]], "/")[2]
        candidates == {"cfo", "capex", "sbc"} \X {1, 2}
        reported ==
            {r \in [candidates ->
                        {"absent", "one year", "two years", "shares", "quarters"}] :
                \A c \in candidates : c[2] = 2 => r[c] \in {"absent", "one year"}}
    IN  {[facts |->
            [taxonomy \in {"us-gaap"} |->
                [name \in {Name(c) : c \in {d \in candidates : r[d] # "absent"}} |->
                    LET c == CHOOSE d \in candidates : r[d] # "absent" /\ Name(d) = name
                    IN  [units |-> Units(c, r[c])]]]] : r \in reported}

\* the facts in which each of three concepts of the shares outstanding is
\* absent or reports in shares (an older and the latest observation, in the
\* order of filing or against it), in shares but nothing above zero, or in
\* dollars.  The latest numbers are 100 (dei), 70 and 200 (us-gaap).
SharesFacts ==
    LET concepts == {<<"dei", "EntityCommonStockSharesOutstanding", 100>>,
                     <<"us-gaap", "EntityCommonStockSharesOutstanding", 70>>,
                     <<"us-gaap", "CommonStockSharesOutstanding", 200>>}
        Latest(c) == Observation(2023, "FY", "2023-12-31", Py("int", <<c[3]>>),
                                 "2024-02-01")
        Older(c) == Observation(2022, "FY", "2022-12-31", Py("int", <<c[3] - 10>>),
                                "2023-02-01")
        Units(c, reporting) ==
            CASE reporting = "shares" ->
                    Py("dict", <<<<"shares", Py("list", <<Older(c), Latest(c)>>)>>>>)
              [] reporting = "latest first" ->
                    Py("dict", <<<<"Shares", Py("list", <<Latest(c), Older(c)>>)>>>>)
              [] reporting = "none above zero" ->
                    Py("dict", <<<<"shares", Py("list",
                        <<Observation(2023, "FY", "2023-12-31", Py("int", <<0>>),
                                      "2024-02-01"),
                          Observation(2023, "FY", "2023-12-31", Py("NoneType", <<>>),
                                      "2024-02-01")>>)>>>>)
              [] reporting = "dollars" ->
                    Py("dict", <<<<"USD", Py("list", <<Latest(c)>>)>>>>)
        reported == [concepts -> {"absent", "shares", "latest first",
                                  "none above zero", "dollars"}]
    IN  {[facts |->
            [taxonomy \in {c[1] : c \in {d \in concepts : r[d] # "absent"}} |->
                [name \in {c[2] : c \in {d \in concepts :
                                            r[d] # "absent" /\ d[1] = taxonomy}} |->
                    LET c == CHOOSE d \in concepts :
                                r[d] # "absent" /\ d[1] = taxonomy /\ d[2] = name
                    IN  [units |-> Units(c, r[c])]]]] : r \in reported}

\* what get_yahoo_quote returns: None, or a quote with a price above zero
\* and the market cap of Yahoo, an int or None
YahooQuotes ==
    {Py("NoneType", <<>>)}
        \cup {[price |-> Py("float", <<10>>), market_cap |-> market_cap] :
                market_cap \in {Py("NoneType", <<>>)}
                    \cup {Py("int", <<n>>) : n \in {0, 700, 1000, 1300, 1500, 2000}}}

InitEdgar ==
    /\ fn = "none"
    /\ args \in
        [units_dict : UnitsDicts
            \cup {Py("NoneType", <<>>)}
            \cup {Py("list", d.items) : d \in {u \in UnitsDicts : Len(u.items) <= 1}}]
        \cup [facts : CompanyFacts,
              tags : UNION {Lists(CandidateTags, n) : n \in 0 .. MaxTags}]
        \cup [observations : UNION {Lists(ConceptObservations, n) : n \in 0 .. MaxObs},
              years : 1 .. MaxKept]
        \cup [ticker : {"AAPL"}, sec : {[cik |-> "0000320193"]},
              market_data : {Py("NoneType", <<>>)}, facts : ReportedFacts]
        \cup [ticker : {"AAPL"}, sec : {[cik |-> "0000320193"]},
              market_data : YahooQuotes,
              facts : SharesFacts \cup {Py("NoneType", <<>>)}]
        \cup [ticker : {"AAPL"}, sec : {[raised |-> "ValueError", message |-> "Ticker not found: AAPL"],
                     [raised |-> "HTTPError", message |-> "404 Client Error: Not Found"]},
              market_data : YahooQuotes, facts : {[facts |-> EmptyDict]}]
    /\ ret = NoRet

GetUsdObservations ==
    /\ fn = "none"
    /\ "units_dict" \in DOMAIN args
    /\ fn' = "_get_usd_observations"
    /\ ret' = _get_usd_observations(args.units_dict)
    /\ UNCHANGED args

TryMultipleTags ==
    /\ fn = "none"
    /\ "tags" \in DOMAIN args
    /\ fn' = "_try_multiple_tags"
    /\ ret' = Py("list", _try_multiple_tags(args.facts, args.tags))
    /\ UNCHANGED args

\* main.py is only given the tags of its TAG_CANDIDATES that name a taxonomy
MainTryMultipleTags ==
    /\ fn = "none"
    /\ "tags" \in DOMAIN args
    /\ \A i \in 1 .. Len(args.tags) : In("/", args.tags[i])
    /\ fn' = "main._try_multiple_tags"
    /\ ret' = Py("list", main_try_multiple_tags(args.facts, args.tags))
    /\ UNCHANGED args

ExtractAnnualValues ==
    /\ fn = "none"
    /\ "observations" \in DOMAIN args
    /\ fn' = "_extract_annual_values"
    /\ ret' = _extract_annual_values(args.observations, args.years)
    /\ UNCHANGED args

MainExtractAnnualValues ==
    /\ fn = "none"
    /\ "observations" \in DOMAIN args
    /\ fn' = "main._extract_annual_values"
    /\ ret' = main_extract_annual_values(args.observations, args.years)
    /\ UNCHANGED args

GetFinancialData ==
    /\ fn = "none"
    /\ "ticker" \in DOMAIN args
    /\ fn' = "get_financial_data"
    /\ ret' = get_financial_data(args.sec, args.market_data, args.facts)
    /\ UNCHANGED args

MainGetFinancialData ==
    /\ fn = "none"
    /\ "ticker" \in DOMAIN args
    /\ fn' = "main.get_financial_data"
    /\ ret' = main_get_financial_data(args.sec, args.market_data, args.facts)
    /\ UNCHANGED args

NextEdgar ==
    \/ GetUsdObservations
    \/ TryMultipleTags
    \/ MainTryMultipleTags
    \/ ExtractAnnualValues
    \/ MainExtractAnnualValues
    \/ GetFinancialData
    \/ MainGetFinancialData

SpecEdgar == InitEdgar /\ [][NextEdgar]_vars

-----------------------------------------------------------------------------
(* Properties of the functions on company facts.                           *)

Resolved == fn \in {"_try_multiple_tags", "main._try_multiple_tags"}

\* the candidate at position i of the call has data after the unit filter
HasData(i) == TagObservations(args.facts, args.tags[i]) # <<>>

\* C11: both variants of _try_multiple_tags return exactly the unit-filtered
\* observations of the first candidate, in list order, that has at least one;
\* nothing of a later candidate is returned.
C11_FirstCandidateWithData ==
    Resolved =>
        \A i \in 1 .. Len(args.tags) :
            (HasData(i) /\ \A j \in 1 .. i - 1 : ~HasData(j))
                => ret = Py("list", TagObservations(args.facts, args.tags[i]))

\* two candidates with data: the first one is returned, the second is not
C11_Witness ==
    /\ fn = "main._try_multiple_tags"
    /\ args.tags = <<"us-gaap/Bar", "us-gaap/Foo">>
    /\ HasData(1) /\ HasData(2)
    /\ Len(ret.items) = 1
    /\ ret.items[1].val.items = <<3>>

\* a tag without taxonomy is looked up in dei and in us-gaap
C11_WitnessBothTaxonomies ==
    /\ fn = "_try_multiple_tags"
    /\ args.tags = <<"us-gaap/Bar", "Foo">>
    /\ ~HasData(1)
    /\ Len(ret.items) = 2
    /\ ret.items[1].val.items = <<1>>
    /\ ret.items[2].val.items = <<2>>

\* the keywords of the resolution, as in the example: candidates Foo and Bar,
\* keywords foo and bar
ScanKeywords == <<"foo", "bar">>

\* the name contains every keyword, in any letter case
MentionsAll(name, keywords) ==
    \A k \in 1 .. Len(keywords) : In(upper(keywords[k]), upper(name))

\* the concepts of the company whose name contains every keyword and that
\* have data after the unit filter
ScanHits ==
    {c \in Concepts :
        /\ c[1] \in DOMAIN args.facts.facts
        /\ c[2] \in DOMAIN args.facts.facts[c[1]]
        /\ MentionsAll(c[2], ScanKeywords)
        /\ _get_usd_observations(UnitsOf(args.facts, c[1], c[2])) # <<>>}

NoCandidateHasData == \A i \in 1 .. Len(args.tags) : ~HasData(i)

\* C12: when no candidate tag yields data, the resolver scans the concept
\* names of the company and returns the unit-filtered observations of the
\* first concept whose name contains every keyword and that has data.
C12_KeywordScan ==
    (fn = "_try_multiple_tags" /\ NoCandidateHasData) =>
        \A c \in ScanHits :
            ScanHits = {c} =>
                ret = Py("list", _get_usd_observations(UnitsOf(args.facts, c[1], c[2])))

\* C13: when neither the candidates nor the keyword scan yield data, the
\* resolution ends in a NoMatchingFact error, not in an empty result.
C13_NoMatchingFact ==
    (Resolved /\ NoCandidateHasData /\ ScanHits = {}) => ret.type = "NoMatchingFact"

\* the resolution of a metric fails: no candidate has an observation in dollars
ResolutionFails(metric) ==
    \A i \in 1 .. Len(TAG_CANDIDATES[metric]) :
        TagObservations(args.facts, TAG_CANDIDATES[metric][i]) = <<>>

\* C14: get_financial_data fails the whole operation when the resolution of
\* CFO, of CapEx or of SBC fails; it never returns a partial result under
\* the status success.
C14_AllOrNothing ==
    (fn \in {"get_financial_data", "main.get_financial_data"}
        /\ "raised" \notin DOMAIN args.sec
        /\ \E metric \in {"cfo", "capex", "sbc"} : ResolutionFails(metric))
            => ret.status = "error"

\* the unit labels of UnitsDicts that name dollars, read off by hand
DollarLabels == {"USD", "usd", "USD/shares", "iso4217:Usd"}

\* the observation lists of a dict that are stored under dollar labels
RECURSIVE DollarLists(_)
DollarLists(items) ==
    IF items = <<>> THEN <<>>
    ELSE IF items[1][1] \in DollarLabels /\ items[1][2].type = "list"
         THEN <<items[1][2].items>> \o DollarLists(Tail(items))
         ELSE DollarLists(Tail(items))

RECURSIVE Concat(_)
Concat(lists) == IF lists = <<>> THEN <<>> ELSE Head(lists) \o Concat(Tail(lists))

\* C15: _get_usd_observations returns the concatenation, in the order of the
\* dict, of the observation lists stored under the unit labels that contain
\* "USD" in any letter case; lists under other labels contribute nothing, and
\* an argument that is not a dict gives the empty list.
C15_UsdConcatenation ==
    fn = "_get_usd_observations" =>
        IF args.units_dict.type = "dict"
        THEN ret = Concat(DollarLists(args.units_dict.items))
        ELSE ret = <<>>

\* a lower-case dollar label and a foreign label next to each other: only
\* the dollar list comes back
C15_Witness ==
    /\ fn = "_get_usd_observations"
    /\ args.units_dict.type = "dict"
    /\ Len(args.units_dict.items) = 2
    /\ args.units_dict.items[1][1] = "EUR"
    /\ args.units_dict.items[2][1] = "iso4217:Usd"
    /\ Len(args.units_dict.items[1][2].items) = 2
    /\ Len(args.units_dict.items[2][2].items) = 1
    /\ ret = args.units_dict.items[2][2].items

\* a list of (label, observations) pairs passed where the dict is expected
C15_WitnessNotDict ==
    /\ fn = "_get_usd_observations"
    /\ args.units_dict.type = "list"
    /\ args.units_dict.items # <<>>
    /\ ret = <<>>

\* the positions of the argument that hold an FY observation with a number
FyPositions ==
    {i \in 1 .. Len(args.observations) :
        /\ args.observations[i].fp = "FY"
        /\ args.observations[i].val.type = "int"}

\* the period ends of ConceptObservations in the order of the calendar,
\* written out by hand
EndRank ==
    [e \in {"2021-12-31", "2022-12-31", "2023-09-30", "2023-12-31",
            "2024-03-31", "2024-12-31"} |->
        CASE e = "2021-12-31" -> 1
          [] e = "2022-12-31" -> 2
          [] e = "2023-09-30" -> 3
          [] e = "2023-12-31" -> 4
          [] e = "2024-03-31" -> 5
          [] e = "2024-12-31" -> 6]

\* (fiscalYear, periodEnd) of a is below that of b
PairBelow(a, b) ==
    a.fy < b.fy \/ (a.fy = b.fy /\ EndRank[a.end] < EndRank[b.end])

\* C16: the most recent annual value returned by _extract_annual_values
\* (sec_edgar_api.py), its first entry, is an FY observation whose
\* (fiscalYear, periodEnd) pair is the greatest among the FY observations,
\* fiscal year first and period end second, whatever the filing dates; no
\* entry stems from an observation of another fiscal period.
C16_LatestFiscalYearAndEnd ==
    fn = "_extract_annual_values" =>
        /\ FyPositions # {} =>
            /\ ret # <<>>
            /\ \E i \in FyPositions :
                /\ ret[1].year = args.observations[i].fy
                /\ ret[1].end_date = args.observations[i].end
                /\ ret[1].filed = args.observations[i].filed
                /\ ret[1].value = args.observations[i].val.items[1]
                /\ \A j \in FyPositions :
                    ~PairBelow(args.observations[i], args.observations[j])
        /\ \A k \in 1 .. Len(ret) :
            \E i \in FyPositions :
                /\ ret[k].year = args.observations[i].fy
                /\ ret[k].end_date = args.observations[i].end
                /\ ret[k].value = args.observations[i].val.items[1]

\* fiscal year 2023 reported twice: the later period end wins although the
\* other observation was filed later, and the quarterly observation of 2024
\* is not taken
C16_Witness ==
    /\ fn = "_extract_annual_values"
    /\ Len(args.observations) = 3
    /\ args.observations[1].end = "2023-09-30" /\ args.observations[1].fp = "FY"
    /\ args.observations[2].end = "2023-12-31"
    /\ args.observations[3].fp = "Q1"
    /\ args.years = 1
    /\ Len(ret) = 1
    /\ ret[1].end_date = "2023-12-31"
    /\ ret[1].filed = "2024-02-01"
    /\ ret[1].value = 100

\* the positions of the argument that hold a quarterly observation with a number
QuarterPositions ==
    {i \in 1 .. Len(args.observations) :
        /\ args.observations[i].fp \in {"Q1", "Q2", "Q3", "Q4"}
        /\ args.observations[i].val.type = "int"}

\* S holds the last four quarterly observations by period end, or all of
\* them when there are fewer
IsLastFour(S) ==
    /\ S \subseteq QuarterPositions
    /\ Cardinality(S) = (IF Cardinality(QuarterPositions) < 4
                         THEN Cardinality(QuarterPositions) ELSE 4)
    /\ \A i \in S, j \in QuarterPositions \ S :
        EndRank[args.observations[j].end] <= EndRank[args.observations[i].end]

RECURSIVE SumOfValues(_)
SumOfValues(S) ==
    IF S = {} THEN 0
    ELSE LET i == CHOOSE j \in S : TRUE
         IN  args.observations[i].val.items[1] + SumOfValues(S \ {i})

\* C17: without an FY observation the period selection returns the sum of
\* the last four quarterly observations by period end as the value of the
\* trailing twelve months, and no value when there is no quarterly
\* observation either.
C17_TrailingTwelveMonths ==
    (fn = "_extract_annual_values" /\ FyPositions = {}) =>
        IF QuarterPositions = {} THEN ret = <<>>
        ELSE /\ ret # <<>>
             /\ \E S \in SUBSET QuarterPositions :
                    IsLastFour(S) /\ ret[1].value = SumOfValues(S)

\* the fiscal years that have an FY observation with a number
FiscalYears == {args.observations[i].fy : i \in FyPositions}

\* the n most recent of the fiscal years, or all of them when there are fewer
MostRecent(n) ==
    {y \in FiscalYears : Cardinality({z \in FiscalYears : z > y}) < n}

\* the result holds at most years entries, one per fiscal year, for the most
\* recent fiscal years, most recent first, each with the latest period end
\* of its fiscal year
AnnualContract ==
    /\ Len(ret) <= args.years
    /\ \A k, l \in 1 .. Len(ret) : k < l => ret[k].year > ret[l].year
    /\ {ret[k].year : k \in 1 .. Len(ret)} = MostRecent(args.years)
    /\ \A k \in 1 .. Len(ret) :
        \E i \in FyPositions :
            /\ ret[k].year = args.observations[i].fy
            /\ ret[k].end_date = args.observations[i].end
            /\ ret[k].value = args.observations[i].val.items[1]
            /\ \A j \in FyPositions :
                args.observations[j].fy = ret[k].year
                    => ~PairBelow(args.observations[i], args.observations[j])

\* C18: _extract_annual_values(observations, N), in every source variant,
\* returns at most N entries, at most one per fiscal year (the first in
\* descending order of fiscal year and period end), for the N most recent
\* fiscal years that have an FY observation, most recent first.
C18_EveryVariant ==
    fn \in {"_extract_annual_values", "main._extract_annual_values"} => AnnualContract

\* the same contract for the variant of sec_edgar_api.py alone
AnnualContractEdgar == fn = "_extract_annual_values" => AnnualContract

\* three annual observations of two fiscal years, two years asked for
AnnualContractEdgarWitness ==
    /\ fn = "_extract_annual_values"
    /\ Cardinality(FyPositions) = 3
    /\ Cardinality(FiscalYears) = 2
    /\ args.years = 2
    /\ Len(ret) = 2

\* the annual series of a metric that the call extracts from the facts
Extracted(metric) ==
    IF fn = "get_financial_data"
    THEN _extract_annual_values(
            _try_multiple_tags(args.facts, TAG_CANDIDATES[metric]), AnnualYears)
    ELSE main_extract_annual_values(
            main_try_multiple_tags(args.facts, TAG_CANDIDATES[metric]), AnnualYears)

YearsOf(series) == {series[i].year : i \in 1 .. Len(series)}

\* C23: free_cash_flow_annual has an entry for a fiscal year if and only if
\* the extracted CFO series and the extracted CapEx series both have one,
\* and the value of each entry is a CFO value less a CapEx value, both of
\* the fiscal year of the entry.
C23_InnerJoin ==
    (fn \in {"get_financial_data", "main.get_financial_data"}
        /\ ret.status = "success") =>
        LET fcf == ret.data.free_cash_flow_annual
        IN  /\ YearsOf(fcf) = YearsOf(Extracted("cfo")) \cap YearsOf(Extracted("capex"))
            /\ \A k \in 1 .. Len(fcf) :
                \E i \in 1 .. Len(Extracted("cfo")), j \in 1 .. Len(Extracted("capex")) :
                    /\ Extracted("cfo")[i].year = fcf[k].year
                    /\ Extracted("capex")[j].year = fcf[k].year
                    /\ fcf[k].value = Extracted("cfo")[i].value - Extracted("capex")[j].value

\* CFO of 2023 and 2022, CapEx of 2023 only, reported as 1010 and 110: free
\* cash flow of 2023 alone, 900
C23_Witness ==
    /\ fn = "get_financial_data"
    /\ ret.status = "success"
    /\ YearsOf(Extracted("cfo")) = {2022, 2023}
    /\ YearsOf(ret.data.capex_annual) = {2023}
    /\ Len(ret.data.free_cash_flow_annual) = 1
    /\ ret.data.free_cash_flow_annual[1].year = 2023
    /\ ret.data.free_cash_flow_annual[1].cfo = 1010
    /\ ret.data.free_cash_flow_annual[1].capex = 110
    /\ ret.data.free_cash_flow_annual[1].value = 900

(***************************************************************************)
(* DataTransformer.to_financial_dataframe (financial_data_processor.py).   *)
(*                                                                         *)
(* A raw record is a function from the keys it has to values: the date, a  *)
(* str, and numbers.  A parsed date is a cell of kind "datetime" that      *)
(* holds the calendar day as year * 10000 + month * 100 + day, which       *)
(* orders the days as the calendar does, and the milliseconds since        *)
(* midnight; the missing date, NaT, is a cell of kind "nat".               *)
(***************************************************************************)
Timestamp(year, month, day, ms) ==
    [k |-> "datetime", n |-> year * (10 ^ 4) + month * (10 ^ 2) + day, d |-> 1,
     ms |-> ms]

\* the number of days of a month of the calendar
DaysInMonth(year, month) ==
    LET IsLeap == (year % 4 = 0 /\ year % 100 # 0) \/ year % 400 = 0
    IN  IF month = 2 THEN (IF IsLeap THEN 28 + 1 ELSE 28)
        ELSE IF month \in {4, 6, 9, 11} THEN 30 ELSE 31

\* int(s) for a string of digits
RECURSIVE ParseInt(_)
ParseInt(s) ==
    LET digits == "0123456789"
        DigitValue(c) == (CHOOSE i \in 1 .. Len(digits) : SubSeq(digits, i, i) = c) - 1
    IN  IF Len(s) = 0 THEN 0
        ELSE (10 * ParseInt(SubSeq(s, 1, Len(s) - 1)))
                + DigitValue(SubSeq(s, Len(s), Len(s)))

\* the strings that pd.to_datetime parses as YYYY-MM-DD
IsIsoDate(s) ==
    LET IsDigits(t) == \A i \in 1 .. Len(t) : In(SubSeq(t, i, i), "0123456789")
    IN  /\ Len(s) = 10
        /\ SubSeq(s, 5, 5) = "-" /\ SubSeq(s, 8, 8) = "-"
        /\ IsDigits(SubSeq(s, 1, 4)) /\ IsDigits(SubSeq(s, 6, 7))
        /\ IsDigits(SubSeq(s, 9, 10))
        /\ ParseInt(SubSeq(s, 6, 7)) \in 1 .. 12
        /\ ParseInt(SubSeq(s, 9, 10)) \in
                1 .. DaysInMonth(ParseInt(SubSeq(s, 1, 4)), ParseInt(SubSeq(s, 6, 7)))

\* pd.to_datetime of one cell of the column: a str that is a date becomes
\* the Timestamp of its midnight, a missing value becomes NaT
ToDatetimeCell(cell) ==
    IF "type" \in DOMAIN cell
    THEN LET s == cell.items[1]
         IN  Timestamp(ParseInt(SubSeq(s, 1, 4)), ParseInt(SubSeq(s, 6, 7)),
                       ParseInt(SubSeq(s, 9, 10)), 0)
    ELSE [k |-> "nat", n |-> 0, d |-> 1]

\* pd.DataFrame(data): one column per key that occurs, NaN where a record
\* lacks the key
FromRecords(data) ==
    DataFrame(Len(data),
              [c \in UNION {DOMAIN data[i] : i \in 1 .. Len(data)} |->
                  [i \in 1 .. Len(data) |->
                      IF c \in DOMAIN data[i] THEN data[i][c] ELSE NaN]])

\* df.sort_values(c, ascending=True), the rows of the result in their order
\* (a table of the model has no index to reset): a row sorts before another
\* when its time is earlier, and before every NaT; the default sort is not
\* stable, so rows with equal values come in any order
sort_values(df, c) ==
    LET SortsBefore(x, y) ==
            /\ x.k = "datetime"
            /\ \/ y.k = "nat"
               \/ x.n < y.n
               \/ x.n = y.n /\ x.ms < y.ms
        Reordered(perm) ==
            DataFrame(df.n, [a \in columns(df) |->
                                [i \in 1 .. df.n |-> df.col[a][perm[i]]]])
    IN  {Reordered(perm) :
            perm \in {p \in [1 .. df.n -> 1 .. df.n] :
                        /\ \A i, j \in 1 .. df.n : i # j => p[i] # p[j]
                        /\ \A i, j \in 1 .. df.n :
                            i < j => ~SortsBefore(df.col[c][p[j]], df.col[c][p[i]])}}

\* the outcomes of to_financial_dataframe(data); pd.to_datetime raises on a
\* str that is no date (errors="raise")
to_financial_dataframe(data) ==
    IF Len(data) = 0 THEN {EmptyDataFrame}
    ELSE LET df == FromRecords(data)
             dates == df.col["date"]
         IN  IF "date" \notin columns(df) THEN {df}
             ELSE IF \E i \in 1 .. df.n :
                        /\ "type" \in DOMAIN dates[i]
                        /\ ~IsIsoDate(dates[i].items[1])
                  THEN {Raise("ValueError")}
             ELSE sort_values(
                    WithColumn(df, "date", [i \in 1 .. df.n |-> ToDatetimeCell(dates[i])]),
                    "date")

\* the Timestamp that lies days whole days and ms milliseconds after the
\* midnight that begins the given month, for days >= 0
RECURSIVE TimestampAfter(_, _, _, _)
TimestampAfter(year, month, days, ms) ==
    IF days < DaysInMonth(year, month) THEN Timestamp(year, month, days + 1, ms)
    ELSE TimestampAfter(IF month = 12 THEN year + 1 ELSE year,
                        IF month = 12 THEN 1 ELSE month + 1,
                        days - DaysInMonth(year, month), ms)

\* pd.to_datetime(df['t'], unit='ms') of one cell: the time that lies that
\* many milliseconds after 1970-01-01 00:00, for a whole number >= 0; NaT
\* for a missing value
ToDatetimeMs(cell) ==
    LET day == 24 * 60 * 60 * 1000
    IN  IF cell.k = "num"
        THEN TimestampAfter(1970, 1, cell.n \div day, cell.n % day)
        ELSE [k |-> "nat", n |-> 0, d |-> 1]

to_price_dataframe_copies_open(polygon_results) ==
    IF Len(polygon_results) = 0 THEN {EmptyDataFrame}
    ELSE LET df == FromRecords(polygon_results)
         IN  IF ~({"t", "c", "h", "l", "o", "v"} \subseteq columns(df))
             THEN {Raise("KeyError")}
             ELSE LET dated == WithColumn(df, "date",
                                [i \in 1 .. df.n |-> ToDatetimeMs(df.col["t"][i])])
                      named == [c \in {"close", "high", "low", "open", "volume"} |->
                                    df.col[SubSeq("o", 1, 1)]]
                  IN  sort_values(
                        DataFrame(df.n,
                            [c \in columns(dated) \cup DOMAIN named |->
                                IF c \in DOMAIN named THEN named[c] ELSE dated.col[c]]),
                        "date")

\* the outcomes of to_price_dataframe(polygon_results); df['t'], df['c'], ...
\* raise KeyError when no bar has the key
to_price_dataframe(polygon_results) ==
    IF Len(polygon_results) = 0 THEN {EmptyDataFrame}
    ELSE LET df == FromRecords(polygon_results)
         IN  IF ~({"t", "c", "h", "l", "o", "v"} \subseteq columns(df))
             THEN {Raise("KeyError")}
             ELSE LET dated == WithColumn(df, "date",
                                [i \in 1 .. df.n |-> ToDatetimeMs(df.col["t"][i])])
                      named == [c \in {"close", "high", "low", "open", "volume"} |->
                                    df.col[SubSeq(c, 1, 1)]]
                  IN  sort_values(
                        DataFrame(df.n,
                            [c \in columns(dated) \cup DOMAIN named |->
                                IF c \in DOMAIN named THEN named[c] ELSE dated.col[c]]),
                        "date")

\* resample_to_monthly(df): df.set_index('date').resample('ME').last()
\* .reset_index().  The bins are the calendar months from the month of the
\* earliest date to the month of the latest one, every month in between
\* included; the row of a bin is dated with the last day of the month and
\* holds in each column the last value of the rows of that month that is not
\* missing, NaN when there is none.
resample_to_monthly(df) ==
    IF empty(df) \/ "date" \notin columns(df) \/ "close" \notin columns(df)
    THEN EmptyDataFrame
    ELSE LET MonthOf(i) ==
                 (df.col["date"][i].n \div (10 ^ 4)) * 12
                    + ((df.col["date"][i].n \div (10 ^ 2)) % (10 ^ 2)) - 1
             first == CHOOSE m \in {MonthOf(i) : i \in 1 .. df.n} :
                        \A i \in 1 .. df.n : m <= MonthOf(i)
             last == CHOOSE m \in {MonthOf(i) : i \in 1 .. df.n} :
                        \A i \in 1 .. df.n : MonthOf(i) <= m
             MonthEnd(m) ==
                 Timestamp(m \div 12, (m % 12) + 1,
                           DaysInMonth(m \div 12, (m % 12) + 1), 0)
             Last(c, m) ==
                 LET present == {i \in 1 .. df.n :
                                    MonthOf(i) = m /\ df.col[c][i].k # "nan"}
                 IN  IF present = {} THEN NaN
                     ELSE df.col[c][CHOOSE i \in present : \A j \in present : j <= i]
         IN  DataFrame(last - first + 1,
                [c \in columns(df) |->
                    [b \in 1 .. last - first + 1 |->
                        IF c = "date" THEN MonthEnd(first + b - 1)
                        ELSE Last(c, first + b - 1)]])

(***************************************************************************)
(* Specification of the DataTransformer.  The arguments of a call are      *)
(*   data             at most MaxRecords raw records, among them two       *)
(*                    records of one date, a record without date and a     *)
(*                    record whose date is no date;                        *)
(*   polygon_results  at most MaxRecords daily bars with the keys t, c, h, *)
(*                    l, o and v, among them two bars of one time and two  *)
(*                    bars of one day;                                     *)
(*   df               a daily price table in ascending order of date: at   *)
(*                    most MaxRecords of five days of 2024, thirty days in *)
(*                    a row from 2024-01-17 on, or a table without the     *)
(*                    close column.                                        *)
(***************************************************************************)
MaxRecords == 3

RawRecords ==
    {[date |-> Py("str", <<"2022-12-31">>), value |-> Int2Cell(100)],
     [date |-> Py("str", <<"2024-12-31">>), value |-> Int2Cell(300)],
     [date |-> Py("str", <<"2023-12-31">>), value |-> Int2Cell(200)],
     [date |-> Py("str", <<"2023-12-31">>), value |-> Int2Cell(250)],
     [value |-> Int2Cell(400)],
     [date |-> Py("str", <<"not a date">>), value |-> Int2Cell(500)]}

\* bars of the aggregates: t is the time in milliseconds since 1970-01-01
PolygonBars ==
    LET day == 24 * 60 * 60 * 1000
        Bar(t, o, h, l, c, v) ==
            [t |-> Int2Cell(t), o |-> Int2Cell(o), h |-> Int2Cell(h),
             l |-> Int2Cell(l), c |-> Int2Cell(c), v |-> Int2Cell(v)]
    IN  {Bar(0, 10, 12, 9, 11, 500),
         Bar(2 * day, 11, 15, 10, 14, 700),
         Bar(2 * day, 21, 25, 20, 24, 800),
         Bar(2 * day + 60 * 1000, 14, 16, 13, 15, 100),
         Bar(23 * day, 15, 18, 14, 17, 900)}

\* daily price tables in ascending order of date; the close of a day is
\* the day of the calendar less 20240000
DailyFrames ==
    LET Daily(days) ==
            DataFrame(Len(days),
                [c \in {"date", "close"} |->
                    [i \in 1 .. Len(days) |->
                        IF c = "date"
                        THEN Timestamp(2024, days[i] \div (10 ^ 2), days[i] % (10 ^ 2), 0)
                        ELSE Int2Cell(days[i])]])
        some == {days \in UNION {Lists({130, 131, 201, 229, 401}, n) :
                                    n \in 0 .. MaxRecords} :
                    \A i, j \in 1 .. Len(days) : i < j => days[i] < days[j]}
        thirty == [i \in 1 .. 30 |-> IF i <= 15 THEN 116 + i ELSE 185 + i]
    IN  {Daily(days) : days \in some \cup {thirty}}
            \cup {DataFrame(1, [c \in {"date"} |-> <<Timestamp(2024, 1, 31, 0)>>])}

InitFrames ==
    /\ fn = "none"
    /\ args \in [data : UNION {Lists(RawRecords, n) : n \in 0 .. MaxRecords}]
            \cup [polygon_results : UNION {Lists(PolygonBars, n) : n \in 0 .. MaxRecords}]
            \cup [df : DailyFrames]
    /\ ret = NoRet

ToFinancialDataframe ==
    /\ fn = "none"
    /\ "data" \in DOMAIN args
    /\ fn' = "to_financial_dataframe"
    /\ ret' \in to_financial_dataframe(args.data)
    /\ UNCHANGED args

ToPriceDataframe ==
    /\ fn = "none"
    /\ "polygon_results" \in DOMAIN args
    /\ fn' = "to_price_dataframe"
    /\ ret' \in to_price_dataframe(args.polygon_results)
    /\ UNCHANGED args

ResampleToMonthly ==
    /\ fn = "none"
    /\ "df" \in DOMAIN args
    /\ fn' = "resample_to_monthly"
    /\ ret' = resample_to_monthly(args.df)
    /\ UNCHANGED args

NextFrames ==
    \/ ToFinancialDataframe
    \/ ToPriceDataframe
    \/ ResampleToMonthly

SpecFrames == InitFrames /\ [][NextFrames]_vars

\* the call raised
Raised(r) == "raised" \in DOMAIN r

\* every record of the argument carries a date that is a day of the calendar
AllDated ==
    \A i \in 1 .. Len(args.data) :
        /\ "date" \in DOMAIN args.data[i]
        /\ args.data[i].date.items[1] \in {"2022-12-31", "2023-12-31", "2024-12-31"}

\* C19: to_financial_dataframe returns an empty table for empty input, and
\* for rows that carry a date a table whose dates are strictly increasing,
\* no two rows sharing a date, whatever the order of the rows given.
C19_StrictlyIncreasingDates ==
    fn = "to_financial_dataframe" =>
        /\ args.data = <<>> => ret = EmptyDataFrame
        /\ (args.data # <<>> /\ AllDated) =>
            /\ ~Raised(ret)
            /\ \A i, j \in 1 .. ret.n :
                i < j => ret.col["date"][i].n < ret.col["date"][j].n

\* the number of records of the argument whose date is a day of the calendar
RECURSIVE ParseableCount(_)
ParseableCount(data) ==
    IF data = <<>> THEN 0
    ELSE (IF "date" \in DOMAIN Head(data)
             /\ Head(data).date.items[1] \in {"2022-12-31", "2023-12-31", "2024-12-31"}
          THEN 1 ELSE 0) + ParseableCount(Tail(data))

\* C20: to_financial_dataframe does not raise, drops the records that lack a
\* parseable date and keeps all others, so that the rows returned are the
\* records with a parseable date (and the number of records dropped is the
\* difference to the number given).
C20_DropsUndatedRecords ==
    fn = "to_financial_dataframe" =>
        /\ ~Raised(ret)
        /\ ret.n = ParseableCount(args.data)
        /\ \A i \in 1 .. ret.n : ret.col["date"][i].k = "datetime"

\* the long-form field of each short key of a bar
LongForm ==
    [t |-> "date", c |-> "close", h |-> "high", l |-> "low", o |-> "open",
     v |-> "volume"]

\* the times of PolygonBars as dates, written out by hand: the day of the
\* calendar and the milliseconds since midnight
DateOfBar ==
    [t \in {0, 172800000, 172860000, 1987200000} |->
        CASE t = 0 -> <<19700101, 0>>
          [] t = 172800000 -> <<19700103, 0>>
          [] t = 172860000 -> <<19700103, 60000>>
          [] t = 1987200000 -> <<19700124, 0>>]

\* row i of the table holds the bar under its long-form fields
HoldsBar(df, i, bar) ==
    /\ \A key \in {"c", "h", "l", "o", "v"} : df.col[LongForm[key]][i] = bar[key]
    /\ df.col["date"][i].k = "datetime"
    /\ <<df.col["date"][i].n, df.col["date"][i].ms>> = DateOfBar[bar.t.n]

\* C21: to_price_dataframe returns the empty table for no bar; otherwise
\* the table has one row per bar, each row holds under date, close, high,
\* low, open and volume the time and the values of its bar unchanged, and
\* the rows are in ascending order of time whatever the order of the bars.
C21_PriceFrame ==
    fn = "to_price_dataframe" =>
        IF args.polygon_results = <<>> THEN ret = EmptyDataFrame
        ELSE /\ ~Raised(ret)
             /\ ret.n = Len(args.polygon_results)
             /\ \E perm \in [1 .. ret.n -> 1 .. ret.n] :
                    /\ \A i, j \in 1 .. ret.n : i # j => perm[i] # perm[j]
                    /\ \A i \in 1 .. ret.n :
                        HoldsBar(ret, i, args.polygon_results[perm[i]])
             /\ \A i, j \in 1 .. ret.n :
                    i < j =>
                        \/ ret.col["date"][i].n < ret.col["date"][j].n
                        \/ /\ ret.col["date"][i].n = ret.col["date"][j].n
                           /\ ret.col["date"][i].ms <= ret.col["date"][j].ms

\* three bars given latest first come back earliest first, each with its
\* own close
C21_Witness ==
    /\ fn = "to_price_dataframe"
    /\ Len(args.polygon_results) = 3
    /\ args.polygon_results[1].t.n = 1987200000
    /\ args.polygon_results[2].t.n = 172860000
    /\ args.polygon_results[3].t.n = 0
    /\ ret.col["date"][1].n = 19700101
    /\ ret.col["date"][2].n = 19700103 /\ ret.col["date"][2].ms = 60000
    /\ ret.col["date"][3].n = 19700124
    /\ ret.col["close"] = <<Int2Cell(11), Int2Cell(15), Int2Cell(17)>>
    /\ ret.col["open"] = <<Int2Cell(10), Int2Cell(14), Int2Cell(15)>>

\* the months of 2024 in which the table given has an observation, read off
\* the calendar days
MonthsObserved ==
    {args.df.col["date"][i].n \div 100 : i \in 1 .. args.df.n}

\* the last row of the table given that falls into the month
LastOfMonth(month) ==
    CHOOSE i \in 1 .. args.df.n :
        /\ args.df.col["date"][i].n \div 100 = month
        /\ \A j \in 1 .. args.df.n :
            args.df.col["date"][j].n \div 100 = month => j <= i

\* C22: for an ascending daily series resample_to_monthly returns exactly
\* one row per calendar month that has an observation, with the close of the
\* last observation of that month, and no row for a month without one.
C22_OneRowPerMonthObserved ==
    (fn = "resample_to_monthly" /\ args.df.n > 0 /\ "close" \in columns(args.df)) =>
        /\ ret.n = Cardinality(MonthsObserved)
        /\ \A month \in MonthsObserved :
            \E b \in 1 .. ret.n :
                /\ ret.col["date"][b].n \div 100 = month
                /\ ret.col["close"][b] = args.df.col["close"][LastOfMonth(month)]
        /\ \A b \in 1 .. ret.n : ret.col["date"][b].n \div 100 \in MonthsObserved

\* the same for the series whose months with an observation follow one
\* another without a month in between
ResampleWithoutGap ==
    (fn = "resample_to_monthly" /\ args.df.n > 0 /\ "close" \in columns(args.df)
        /\ \A m \in 202401 .. 202412 :
            (\E a, b \in MonthsObserved : a < m /\ m < b) => m \in MonthsObserved)
            => C22_OneRowPerMonthObserved

\* thirty days from 2024-01-17 to 2024-02-15 give the two rows of January
\* and February with the closes of 01-31 and 02-15
ResampleThirtyDays ==
    /\ fn = "resample_to_monthly"
    /\ args.df.n = 30
    /\ ret.n = 2
    /\ ret.col["date"][1].n = 20240131 /\ ret.col["close"][1] = Int2Cell(131)
    /\ ret.col["date"][2].n = 20240229 /\ ret.col["close"][2] = Int2Cell(215)

-----------------------------------------------------------------------------
(***************************************************************************)
(* The quote, the shares outstanding and the outcome of get_financial_data *)
(***************************************************************************)

\* the market cap that Yahoo gave to the call, None without a quote
YahooCap ==
    IF "price" \in DOMAIN args.market_data THEN args.market_data.market_cap
    ELSE Py("NoneType", <<>>)

\* the quotient |yahooCap - product| / max(yahooCap, 1) is above 30 / 100
Inconsistent(yahooCap, product) ==
    LET distance == IF yahooCap < product THEN product - yahooCap
                    ELSE yahooCap - product
        scale == IF yahooCap < 1 THEN 1 ELSE yahooCap
    IN  10 * distance > 3 * scale

\* C27: when get_financial_data (sec_edgar_api.py) has a price and the SEC
\* shares outstanding, the market cap it reports is price * shares if Yahoo
\* gave no market cap or one that is off price * shares by more than 30 % of
\* max(yahooCap, 1), and the market cap of Yahoo otherwise; without a price
\* or without shares it reports what Yahoo gave, possibly None.
C27_MarketCapSanity ==
    (fn = "get_financial_data" /\ ret.status = "success") =>
        LET price == ret.data.stock_price
            shares == ret.data.shares_outstanding
            reported == ret.data.market_cap
        IN  IF price.type # "NoneType" /\ shares.type # "NoneType"
            THEN LET product == price.items[1] * shares.items[1]
                 IN  IF YahooCap.type = "NoneType"
                     THEN reported.type # "NoneType" /\ reported.items[1] = product
                     ELSE IF Inconsistent(YahooCap.items[1], product)
                          THEN /\ reported.type # "NoneType"
                               /\ reported.items[1] = product
                          ELSE reported = YahooCap
            ELSE reported = YahooCap

\* Yahoo says 1500 where price * shares is 10 * 100: 1000 is reported
C27_Witness ==
    /\ fn = "get_financial_data"
    /\ ret.status = "success"
    /\ YahooCap = Py("int", <<1500>>)
    /\ ret.data.stock_price.items = <<10>>
    /\ ret.data.shares_outstanding.items = <<100>>
    /\ ret.data.market_cap.items = <<1000>>

\* Yahoo says 1000 where price * shares is 10 * 70, off by 30 % and no more:
\* the market cap of Yahoo is reported
C27_WitnessThreshold ==
    /\ fn = "get_financial_data"
    /\ ret.status = "success"
    /\ YahooCap = Py("int", <<1000>>)
    /\ ret.data.shares_outstanding.items = <<70>>
    /\ ret.data.market_cap = Py("int", <<1000>>)

\* the observations above zero that a concept reports in shares
PositiveShares(concept) ==
    LET items == concept.units.items
        lists == {i \in 1 .. Len(items) :
                    In("SHARES", upper(items[i][1])) /\ items[i][2].type = "list"}
    IN  {obs \in UNION {{items[i][2].items[k] : k \in 1 .. Len(items[i][2].items)} :
                            i \in lists} :
            obs.val.type \in {"int", "float"} /\ obs.val.items[1] > 0}

\* the values of the observations of a set with the latest period end
LatestValues(observations) ==
    {obs.val.items[1] : obs \in {o \in observations :
                                    \A p \in observations : ~StrLess(o.end, p.end)}}

\* the first candidate tag of the shares is in dei and in us-gaap, and the
\* concept of dei has a number of shares above zero
InBothTaxonomies ==
    LET tag == TAG_CANDIDATES.shares[1]
    IN  /\ "facts" \in DOMAIN args.facts
        /\ {"dei", "us-gaap"} \subseteq DOMAIN args.facts.facts
        /\ tag \in DOMAIN args.facts.facts["dei"]
        /\ tag \in DOMAIN args.facts.facts["us-gaap"]
        /\ PositiveShares(args.facts.facts["dei"][tag]) # {}

\* C28: for a candidate tag of the shares that is in dei and in us-gaap, the
\* shares outstanding are the number above zero with the latest period end
\* among the observations of the concept of dei, not of that of us-gaap.
C28_DeiFirst ==
    (fn \in {"get_financial_data", "main.get_financial_data"}
        /\ ret.status = "success" /\ InBothTaxonomies) =>
        /\ ret.data.shares_outstanding.type # "NoneType"
        /\ ret.data.shares_outstanding.items[1] \in
            LatestValues(PositiveShares(
                args.facts.facts["dei"][TAG_CANDIDATES.shares[1]]))

\* where the concept is in one taxonomy only, its latest number above zero
\* is returned
SharesOfOneTaxonomy ==
    (fn \in {"get_financial_data", "main.get_financial_data"}
        /\ ret.status = "success"
        /\ "facts" \in DOMAIN args.facts
        /\ DOMAIN args.facts.facts = {"dei"}) =>
        \/ PositiveShares(args.facts.facts["dei"][TAG_CANDIDATES.shares[1]]) = {}
        \/ ret.data.shares_outstanding.items[1] \in
            LatestValues(PositiveShares(
                args.facts.facts["dei"][TAG_CANDIDATES.shares[1]]))

\* the step of the call that fails, if one does: a request to the SEC, or
\* the extraction from a response that is no dict
Failure ==
    IF "raised" \in DOMAIN args.sec
    THEN [type |-> args.sec.raised, message |-> args.sec.message]
    ELSE IF "type" \in DOMAIN args.facts
    THEN [type |-> "AttributeError",
          message |-> "'NoneType' object has no attribute 'get'"]
    ELSE [type |-> "none", message |-> ""]

\* C29: get_financial_data never raises.  When a step fails it returns the
\* status error, no data and the type and the message of the exception;
\* otherwise the status success and data; nothing else.
C29_NeverRaises ==
    fn \in {"get_financial_data", "main.get_financial_data"} =>
        /\ "raised" \notin DOMAIN ret
        /\ IF Failure.type # "none"
           THEN /\ ret.status = "error"
                /\ ret.data = Py("NoneType", <<>>)
                /\ ret.error = [message |-> Failure.message, type |-> Failure.type]
           ELSE /\ ret.status = "success"
                /\ ret.data # Py("NoneType", <<>>)

\* the extraction fails on a response of the SEC that is no dict
C29_Witness ==
    /\ fn = "get_financial_data"
    /\ "cik" \in DOMAIN args.sec
    /\ ret.status = "error"
    /\ ret.error.type = "AttributeError"

\* the lookup of the ticker fails
C29_WitnessLookup ==
    /\ fn = "main.get_financial_data"
    /\ ret.status = "error"
    /\ ret.error = [message |-> "Ticker not found: AAPL", type |-> "ValueError"]

-----------------------------------------------------------------------------
(***************************************************************************)
(* The sidebar of the dashboard (app.py).  Streamlit runs the script once  *)
(* when the session starts and again after every interaction with a        *)
(* widget.  A call of render_sidebar is given, in args, the state of the   *)
(* session and of the two widgets of the run: the text of the text input   *)
(* and whether the run was caused by a press of the button "Analyze        *)
(* Stock", for which alone st.button returns True.  fn is "none" while a   *)
(* run is due and "render_sidebar" when the run has made the call.         *)
(***************************************************************************)

\* a sidebar that stores the text of every run
render_sidebar_follows_input(session_state, text_input, button) ==
    LET ticker == upper(text_input)
    IN  [session_state |-> [k \in {"ticker"} |-> ticker],
         ret |-> IF button THEN Raise("RerunException") ELSE Py("str", <<ticker>>)]

\* render_sidebar: the state of the session it leaves and what it returns.
\* st.rerun() raises out of the script, which Streamlit then runs again.
render_sidebar(session_state, text_input, button) ==
    LET ticker == upper(text_input)
        set == [k \in DOMAIN session_state \cup {"ticker"} |->
                    IF k = "ticker" THEN ticker ELSE session_state[k]]
    IN  IF button
        THEN [session_state |-> set, ret |-> Raise("RerunException")]
        ELSE LET kept == IF "ticker" \notin DOMAIN session_state THEN set
                         ELSE session_state
             IN  [session_state |-> kept, ret |-> Py("str", <<kept["ticker"]>>)]

\* what the user may leave in the text input
TickerTexts == {"AAPL", "aapl", "msft", "MSFT", "Brk.b", "goog", "nvda", ""}

\* the session starts: nothing stored, the text input holds value="AAPL",
\* no button was pressed
InitSidebar ==
    /\ fn = "none"
    /\ args = [session_state |-> EmptyDict, text_input |-> "AAPL", button |-> FALSE]
    /\ ret = NoRet

\* a run of the script: run() calls render_sidebar
RenderSidebar ==
    /\ fn = "none"
    /\ "session_state" \in DOMAIN args
    /\ fn' = "render_sidebar"
    /\ LET done == render_sidebar(args.session_state, args.text_input, args.button)
       IN  /\ args' = [args EXCEPT !.session_state = done.session_state]
           /\ ret' = done.ret

\* st.rerun(): the script runs again at once, with the widgets as they are
\* and the button no longer pressed
Rerun ==
    /\ fn = "render_sidebar"
    /\ "raised" \in DOMAIN ret
    /\ fn' = "none"
    /\ args' = [args EXCEPT !.button = FALSE]
    /\ UNCHANGED ret

\* the user commits another text in the text input, which causes a run
EditTicker ==
    /\ fn = "render_sidebar"
    /\ "raised" \notin DOMAIN ret
    /\ \E text \in TickerTexts \ {args.text_input} :
        args' = [args EXCEPT !.text_input = text, !.button = FALSE]
    /\ fn' = "none"
    /\ UNCHANGED ret

\* the user presses "Analyze Stock", with the text input as it is or with a
\* text typed just before, which causes a run
PressAnalyze ==
    /\ fn = "render_sidebar"
    /\ "raised" \notin DOMAIN ret
    /\ \E text \in TickerTexts :
        args' = [args EXCEPT !.text_input = text, !.button = TRUE]
    /\ fn' = "none"
    /\ UNCHANGED ret

NextSidebar ==
    \/ RenderSidebar
    \/ Rerun
    \/ EditTicker
    \/ PressAnalyze

SpecSidebar == InitSidebar /\ [][NextSidebar]_vars

-----------------------------------------------------------------------------
\* the ticker stored in the session, "(unset)" before the first run
Stored(a) ==
    IF "ticker" \in DOMAIN a.session_state THEN a.session_state["ticker"]
    ELSE "(unset)"

\* C30: the ticker that render_sidebar returns is the one stored in the
\* session.  The first run stores the text of the text input in upper case;
\* afterwards the stored ticker changes only in a run caused by a press of
\* the button, to the text of that run in upper case, and a run without a
\* press leaves it as it is and returns it, whatever the text input holds.
C30_StoredTicker ==
    /\ []((fn = "render_sidebar" /\ "raised" \notin DOMAIN ret)
            => ret = Py("str", <<Stored(args)>>))
    /\ [][/\ (Stored(args) = "(unset)" /\ fn' = "render_sidebar")
                => Stored(args') = upper(args.text_input)
          /\ (Stored(args) # "(unset)" /\ Stored(args') # Stored(args))
                => /\ fn = "none" /\ fn' = "render_sidebar"
                   /\ args.button
                   /\ Stored(args') = upper(args.text_input)
          /\ (Stored(args) # "(unset)" /\ fn' = "render_sidebar" /\ ~args.button)
                => /\ Stored(args') = Stored(args)
                   /\ ret' = Py("str", <<Stored(args)>>)
          /\ (fn' = "render_sidebar" /\ args.button)
                => Stored(args') = upper(args.text_input)]_vars

\* a run without a press returned AAPL while the text input holds msft
C30_Witness ==
    /\ fn = "render_sidebar"
    /\ "session_state" \in DOMAIN args
    /\ ~args.button
    /\ args.text_input = "msft"
    /\ ret = Py("str", <<"AAPL">>)

\* after a press with msft in the text input, MSFT is returned
C30_WitnessPressed ==
    /\ fn = "render_sidebar"
    /\ "session_state" \in DOMAIN args
    /\ args.text_input = "msft"
    /\ ret = Py("str", <<"MSFT">>)

====
